---- MODULE Spec2Model ----
(***************************************************************************)
(* Gatekeeper: the gate execution engine (runner.Engine.RunAll) and the    *)
(* orchestration pipeline (commands.Pipeline.Execute) with its stash /     *)
(* signal-handler / deferred-pop protocol.                                 *)
(*                                                                         *)
(* Spec        the CLI process: Pipeline.Execute calling Engine.RunAll,    *)
(*             the signal goroutine and OS signals.                        *)
(* SpecEngine  Engine.RunAll called directly with a caller-owned context   *)
(*             (as the package's tests do), gates of any Gate kind.        *)
(* SpecPool    pool.Pool (GetOrCreate, CleanupAll) against the Docker      *)
(*             daemon's containers over successive gatekeeper runs.        *)
(* SpecPoolTTL the same with time passing, Executor.Run and CleanupStale.  *)
(* SpecGate    one gate: its Execute (ContainerGate with Executor.Run,     *)
(*             LLMGate, skippedGate, an erroring gate), the engine's       *)
(*             collection of what it returned and the aggregation.         *)
(* SpecEngineLive  SpecEngine under a fair scheduler.                      *)
(* SpecProgress    SpecEngine with a Progress reporter attached.           *)
(* SpecHooks, SpecParse, SpecValidate, SpecFilter, SpecReview, SpecStash,  *)
(* SpecPoolCalls   the hook installer, the parsers, ValidateLineNumbers,   *)
(*             ShouldRun / FilterGates, GeminiClient.Review, the stash     *)
(*             service and single pool calls, each on any input.           *)
(* SpecStashRun    Pipeline.Execute's stash steps on a repository that     *)
(*             holds stash entries of earlier runs.                        *)
(***************************************************************************)
EXTENDS Integers, Sequences, FiniteSets, TLC

\* Largest number of gates in a configuration / passed to RunAll.
MaxGates == 2

\* Largest number of SIGINT/SIGTERM deliveries during one process run.
MaxSignals == 1

VARIABLES
    \* ---- Engine.RunAll ----
    gates,            \* the gate list (config.Gate per instance)
    failFast,         \* RunAll's failFast argument / opts.FailFast
    epc,              \* RunAll's position: "idle" | "collect" | "returned"
    tpc,              \* per gate goroutine: "spawned" | "exec" | "sent" | "done"
    tres,             \* per gate goroutine: its local (result, err)
    resultsCh,        \* buffered channel of indexedResult
    chClosed,         \* close(resultsCh) has run
    collected,        \* collected[idx]: slot per gate, nil or a GateResult
    runResult,        \* the returned RunResult
    callerCancelled,  \* the caller cancelled RunAll's parent context
    engineCancelled,  \* the fail-fast cancel() has been called
    inflightAtCancel, \* history: gates inside Execute when fail-fast fired
    gateNames,        \* RunAll's gateNames argument
    progress,         \* e.Progress # nil
    events,           \* history: the calls made on e.Progress
    \* ---- Pipeline.Execute ----
    dryRun,           \* opts.DryRun as step 13 read it (FALSE until then)
    ppc,              \* Pipeline.Execute's position
    ret,              \* Pipeline.Execute's return value
    stashed,          \* the value Stash returned
    notify,           \* signal.Notify(sigCh, ...) is in effect
    sigCh,            \* number of signals buffered in sigCh (capacity 1)
    hpc,              \* signal goroutine: "none" | "wait" | "pop" | "exit"
    sigCount,         \* signals delivered so far
    proc,             \* "running" | "exited" | "killed"
    exitCode,         \* process exit status once proc # "running"
    callLog,          \* history: calls made on the Git and Docker ports, with
                      \* whether each returned an error
    tree,             \* working tree relative to the index
    stashEntry,       \* the marker-bearing stash entry
    entryTree,        \* history: the working tree at entry
    \* ---- pool.Pool and the Docker daemon ----
    containers,       \* the daemon's managed containers (labels, status)
    nextId,           \* the id the daemon gives the next container
    now,              \* wall clock, in ticks
    inv,              \* a gatekeeper run: "idle" | "running"
    staleAtStart,     \* history: containers past the TTL when the run began
    returned,         \* history: (triple, id) for every id GetOrCreate returned
    created,          \* history: (id, triple, started) per ContainerCreate
    lastExec,         \* history: per container, when a command last ran in it
    evictions,        \* history: removals made by CleanupStale and CleanupAll
    reused,           \* history: (triple, id) for every id found by label lookup
    \* ---- one gate: Execute, collection, aggregation ----
    gcfg,             \* the gate's implementation and config.Gate policies
    gpc,              \* Execute's position
    gres,             \* the GateResult that Execute is filling
    gret,             \* what Execute returned
    gslot,            \* the engine's collected slot for the gate
    grun,             \* the RunResult of the one-gate run
    xpc,              \* Executor.Run's position
    xret,             \* what Executor.Run returned
    streamDone,       \* the output goroutine has sent on outputDone
    gctxDone,         \* the context passed to Execute is cancelled
    woke,             \* history: the select case Executor.Run took
    gfail,            \* history: the step of Execute that failed
    firstFired,       \* history: the first of output completion, cancellation, timer
    llmTrace,         \* history: what LLMGate.Execute met and called
    \* ---- the pre-commit hook file ----
    hook,             \* .git/hooks/pre-commit: absent, or its content
    hookLog,          \* history: the InstallHook / RemoveHook calls made
    \* ---- library functions called on their own ----
    fnArg,            \* the arguments of the call
    fnRes,            \* the function called and what it returned
    \* ---- llm.GeminiClient.Review ----
    rvpc,             \* Review's position
    attempt,          \* the loop variable: attempts completed
    backoff,          \* the backoff variable, in seconds
    waited,           \* seconds the parked select has waited
    rvCtxDone,        \* the context passed to Review is cancelled
    rvRet,            \* what Review returned
    rvLog,            \* history: requests, sleeps and the cancellation
    \* ---- git.ExecService.Stash / StashPop on a repository ----
    repo,             \* the working tree and the stash stack (top first)
    stashLog          \* history: the Stash / StashPop calls made

engineVars == <<gates, failFast, epc, tpc, tres, resultsCh, chClosed, collected,
                runResult, callerCancelled, engineCancelled, inflightAtCancel,
                gateNames, progress, events>>
pipeVars == <<dryRun, ppc, ret, stashed, notify, sigCh, hpc, sigCount, proc,
              exitCode, callLog, tree, stashEntry, entryTree>>
poolVars == <<containers, nextId, now, inv, staleAtStart, returned, created,
              lastExec, evictions, reused>>
gateVars == <<gcfg, gpc, gres, gret, gslot, grun, xpc, xret, streamDone, gctxDone,
              woke, gfail, firstFired, llmTrace>>
hookVars == <<hook, hookLog>>
fnVars == <<fnArg, fnRes>>
reviewVars == <<rvpc, attempt, backoff, waited, rvCtxDone, rvRet, rvLog>>
stashVars == <<repo, stashLog>>
libVars == <<hookVars, fnVars, reviewVars, stashVars>>
vars == <<engineVars, pipeVars, poolVars, gateVars, libVars>>

-----------------------------------------------------------------------------
\* Data

\* config.Gate as far as the engine and the pipeline read it; kind tells
\* which Gate implementation the factory (or a test) built.
GateKinds == {"container", "mock"}
GateCfg == [blocking : BOOLEAN, writable : BOOLEAN, kind : GateKinds]

\* formatter.GateResult: Name is the gate's position (0 is the empty name),
\* sysErr stands for SystemError # "".
ZeroResult == [name |-> 0, passed |-> FALSE, blocking |-> FALSE, sysErr |-> FALSE]

\* What Gate.Execute returns: (result, err); hasResult is result # nil.
NoReturn == [hasResult |-> FALSE, result |-> ZeroResult, hasErr |-> FALSE]

\* A nil slot of the collected slice.
NilSlot == [set |-> FALSE, r |-> ZeroResult]

SeqsUpTo(S, n) == UNION {[1..k -> S] : k \in 0..n}

\* The verdicts a gate's Execute can reach: passed, failed, system error.
\* A system error never sets Passed (it stays the zero value).
Verdicts == {[passed |-> TRUE, sysErr |-> FALSE],
             [passed |-> FALSE, sysErr |-> FALSE],
             [passed |-> FALSE, sysErr |-> TRUE]}

\* ContainerGate.Execute / LLMGate.Execute: always (result, nil); Blocking is
\* cfg.IsBlocking(); pool, exec (also a cancelled context) and parser
\* failures fill SystemError.
ContainerGateExecute(i, cfg) ==
    {[hasResult |-> TRUE, hasErr |-> FALSE,
      result |-> [name |-> i, passed |-> v.passed, blocking |-> cfg.blocking,
                  sysErr |-> v.sysErr]] : v \in Verdicts}

\* mockGate.Execute: the canned result (any GateResult the test built), or
\* (nil, err) for an error gate and for a slow gate whose context is cancelled.
MockGateExecute(i, cfg) ==
    {[hasResult |-> TRUE, hasErr |-> FALSE,
      result |-> [name |-> i, passed |-> p, blocking |-> cfg.blocking,
                  sysErr |-> s]] : p \in BOOLEAN, s \in BOOLEAN}
    \cup {[hasResult |-> FALSE, hasErr |-> TRUE, result |-> ZeroResult]}

\* Gate.Execute, dispatched on the implementation.
Execute(i, cfg) ==
    IF cfg.kind = "container" THEN ContainerGateExecute(i, cfg)
    ELSE MockGateExecute(i, cfg)

\* ctx.Done() of RunAll's child context is closed.
CtxDone == callerCancelled \/ engineCancelled

Alive == proc = "running"

-----------------------------------------------------------------------------
\* Engine.RunAll

\* The collection loop's body: a result fills its slot, an error without a
\* result fills it with a placeholder carrying only SystemError.
CollectSlot(ir) ==
    IF ir.hasResult THEN [set |-> TRUE, r |-> ir.result]
    ELSE IF ir.hasErr THEN [set |-> TRUE, r |-> [ZeroResult EXCEPT !.sysErr = TRUE]]
    ELSE NilSlot

\* FailsRun without the system-error disjunct.
FailsRunIgnoringSystemError(r) == r.blocking /\ ~r.passed

\* The run fails on a blocking gate that failed or had a system error.
FailsRun(r) == r.blocking /\ (~r.passed \/ r.sysErr)

\* The aggregation loop over collected, from slot i on.
RECURSIVE BuildRunResult(_, _, _)
BuildRunResult(coll, i, acc) ==
    IF i > Len(coll) THEN acc
    ELSE IF ~coll[i].set THEN BuildRunResult(coll, i + 1, acc)
    ELSE BuildRunResult(coll, i + 1,
            [passed |-> IF FailsRun(coll[i].r) THEN FALSE ELSE acc.passed,
             gates |-> Append(acc.gates, coll[i].r)])

EmptyRunResult == [passed |-> TRUE, gates |-> <<>>]

\* RunAll up to the fan-out: the empty list returns at once, otherwise one
\* goroutine per gate is started and the collection loop begins.
RunAllStart ==
    /\ epc' = IF Len(gates) = 0 THEN "returned" ELSE "collect"
    /\ runResult' = EmptyRunResult
    /\ tpc' = [i \in 1..Len(gates) |-> "spawned"]
    /\ tres' = [i \in 1..Len(gates) |-> NoReturn]
    /\ collected' = [i \in 1..Len(gates) |-> NilSlot]
    /\ resultsCh' = <<>>
    /\ chClosed' = FALSE
    /\ events' = {}
    /\ UNCHANGED <<gates, failFast, callerCancelled, engineCancelled, inflightAtCancel,
                   progress>>

\* make(chan indexedResult, len(gates)): the buffer of resultsCh.
ChanCap(gs) == Len(gs)

\* TaskSkip returning without wg.Done.
TaskSkipWithoutDone(i) ==
    /\ Alive /\ epc = "collect" /\ tpc[i] = "spawned"
    /\ CtxDone
    /\ tpc' = [tpc EXCEPT ![i] = "skipped"]
    /\ UNCHANGED <<gates, failFast, epc, tres, resultsCh, chClosed, collected,
                   runResult, callerCancelled, engineCancelled, inflightAtCancel,
                   gateNames, progress, events>>
    /\ UNCHANGED pipeVars
    /\ UNCHANGED <<poolVars, gateVars, libVars>>

\* A gate goroutine finds the context already cancelled and returns.
TaskSkip(i) ==
    /\ Alive /\ epc = "collect" /\ tpc[i] = "spawned"
    /\ CtxDone
    /\ tpc' = [tpc EXCEPT ![i] = "done"]
    /\ UNCHANGED <<gates, failFast, epc, tres, resultsCh, chClosed, collected,
                   runResult, callerCancelled, engineCancelled, inflightAtCancel,
                   gateNames, progress, events>>
    /\ UNCHANGED pipeVars
    /\ UNCHANGED <<poolVars, gateVars, libVars>>

\* One call on e.Progress: the method and the name it was given.
ProgressCall(ev, name) == [ev |-> ev, name |-> name]

\* The goroutine's OnStart call: with a reporter and a name for its index.
OnStart(idx) ==
    IF progress /\ idx <= Len(gateNames)
    THEN {ProgressCall("on_start", gateNames[idx])} ELSE {}

\* The goroutine's OnComplete call: with a reporter and a non-nil result.
OnComplete(idx, out) ==
    IF progress /\ out.hasResult
    THEN {ProgressCall("on_complete", out.result.name)} ELSE {}

\* A gate goroutine passes the check, reports OnStart and calls Execute.
TaskStart(i) ==
    /\ Alive /\ epc = "collect" /\ tpc[i] = "spawned"
    /\ ~CtxDone
    /\ events' = events \cup OnStart(i)
    /\ tpc' = [tpc EXCEPT ![i] = "exec"]
    /\ UNCHANGED <<gates, failFast, epc, tres, resultsCh, chClosed, collected,
                   runResult, callerCancelled, engineCancelled, inflightAtCancel,
                   gateNames, progress>>
    /\ UNCHANGED pipeVars
    /\ UNCHANGED <<poolVars, gateVars, libVars>>

\* Execute returns; the goroutine sends the indexed result, which waits
\* for room in the channel's buffer.
TaskSend(i) ==
    /\ Alive /\ epc = "collect" /\ tpc[i] = "exec"
    /\ Len(resultsCh) < ChanCap(gates)
    /\ \E out \in Execute(i, gates[i]) :
          /\ tres' = [tres EXCEPT ![i] = out]
          /\ resultsCh' = Append(resultsCh, [idx |-> i, hasResult |-> out.hasResult,
                                              result |-> out.result, hasErr |-> out.hasErr])
    /\ tpc' = [tpc EXCEPT ![i] = "sent"]
    /\ UNCHANGED <<gates, failFast, epc, chClosed, collected, runResult,
                   callerCancelled, engineCancelled, inflightAtCancel,
                   gateNames, progress, events>>
    /\ UNCHANGED pipeVars
    /\ UNCHANGED <<poolVars, gateVars, libVars>>

\* ShouldCancel without the Blocking conjunct.
ShouldCancelOnAnyFailure(ff, out) ==
    ff /\ out.hasResult /\ ~out.result.passed

\* The fail-fast condition of a gate goroutine.
ShouldCancel(ff, out) ==
    ff /\ out.hasResult /\ ~out.result.passed /\ out.result.blocking

\* After the send: the goroutine reports OnComplete, makes the fail-fast
\* check, then wg.Done.
TaskFailFast(i) ==
    /\ Alive /\ epc = "collect" /\ tpc[i] = "sent"
    /\ events' = events \cup OnComplete(i, tres[i])
    /\ IF ShouldCancel(failFast, tres[i])
       THEN /\ engineCancelled' = TRUE
            /\ inflightAtCancel' = IF engineCancelled THEN inflightAtCancel
                                   ELSE {j \in 1..Len(gates) : tpc[j] = "exec"}
       ELSE UNCHANGED <<engineCancelled, inflightAtCancel>>
    /\ tpc' = [tpc EXCEPT ![i] = "done"]
    /\ UNCHANGED <<gates, failFast, epc, tres, resultsCh, chClosed, collected,
                   runResult, callerCancelled, gateNames, progress>>
    /\ UNCHANGED pipeVars
    /\ UNCHANGED <<poolVars, gateVars, libVars>>

\* The closer goroutine: wg.Wait, then close(resultsCh).
CloseResults ==
    /\ Alive /\ epc = "collect" /\ ~chClosed
    /\ \A i \in 1..Len(gates) : tpc[i] = "done"
    /\ chClosed' = TRUE
    /\ UNCHANGED <<gates, failFast, epc, tpc, tres, resultsCh, collected, runResult,
                   callerCancelled, engineCancelled, inflightAtCancel,
                   gateNames, progress, events>>
    /\ UNCHANGED pipeVars
    /\ UNCHANGED <<poolVars, gateVars, libVars>>

\* Collect filling the slots in the order of arrival.
CollectInArrivalOrder ==
    /\ Alive /\ epc = "collect" /\ resultsCh # <<>>
    /\ LET ir == Head(resultsCh)
           free == {i \in 1..Len(collected) : ~collected[i].set}
           k == IF free = {} THEN ir.idx ELSE CHOOSE i \in free : \A j \in free : i <= j
       IN collected' = [collected EXCEPT ![k] =
                          IF CollectSlot(ir).set THEN CollectSlot(ir) ELSE @]
    /\ resultsCh' = Tail(resultsCh)
    /\ UNCHANGED <<gates, failFast, epc, tpc, tres, chClosed, runResult,
                   callerCancelled, engineCancelled, inflightAtCancel,
                   gateNames, progress, events>>
    /\ UNCHANGED pipeVars
    /\ UNCHANGED <<poolVars, gateVars, libVars>>

\* One iteration of the collection loop.
Collect ==
    /\ Alive /\ epc = "collect" /\ resultsCh # <<>>
    /\ LET ir == Head(resultsCh) IN
         collected' = [collected EXCEPT ![ir.idx] =
                          IF CollectSlot(ir).set THEN CollectSlot(ir) ELSE @]
    /\ resultsCh' = Tail(resultsCh)
    /\ UNCHANGED <<gates, failFast, epc, tpc, tres, chClosed, runResult,
                   callerCancelled, engineCancelled, inflightAtCancel,
                   gateNames, progress, events>>
    /\ UNCHANGED pipeVars
    /\ UNCHANGED <<poolVars, gateVars, libVars>>

\* The Finish calls made so far.
FinishCalls(ev) == {e \in ev : e.ev = "finish"}

\* RunAll without its call of Finish.
FinishSkipped(ev, attached) == ev

\* `if e.Progress != nil { e.Progress.Finish() }`: one more Finish call.
Finish(ev, attached) ==
    IF attached
    THEN ev \cup {ProgressCall("finish", Cardinality(FinishCalls(ev)) + 1)}
    ELSE ev

\* The channel is closed and drained: build the RunResult, report Finish
\* and return.
Aggregate ==
    /\ Alive /\ epc = "collect" /\ chClosed /\ resultsCh = <<>>
    /\ runResult' = BuildRunResult(collected, 1, EmptyRunResult)
    /\ events' = Finish(events, progress)
    /\ epc' = "returned"
    /\ UNCHANGED <<gates, failFast, tpc, tres, resultsCh, chClosed, collected,
                   callerCancelled, engineCancelled, inflightAtCancel,
                   gateNames, progress>>
    /\ UNCHANGED pipeVars
    /\ UNCHANGED <<poolVars, gateVars, libVars>>

\* The caller of RunAll cancels the context it passed in.
CallerCancel ==
    /\ ppc = "direct" /\ epc = "collect" /\ ~callerCancelled
    /\ callerCancelled' = TRUE
    /\ UNCHANGED <<gates, failFast, epc, tpc, tres, resultsCh, chClosed, collected,
                   runResult, engineCancelled, inflightAtCancel,
                   gateNames, progress, events>>
    /\ UNCHANGED pipeVars
    /\ UNCHANGED <<poolVars, gateVars, libVars>>

\* RunAll called directly (not from the pipeline); the context may already
\* be cancelled when it is passed in.
DirectRunAll ==
    /\ ppc = "direct" /\ epc = "idle"
    /\ RunAllStart
    /\ UNCHANGED gateNames
    /\ UNCHANGED pipeVars
    /\ UNCHANGED <<poolVars, gateVars, libVars>>

EngineStep ==
    \/ \E i \in 1..Len(gates) : TaskSkip(i)
    \/ \E i \in 1..Len(gates) : TaskStart(i)
    \/ \E i \in 1..Len(gates) : TaskSend(i)
    \/ \E i \in 1..Len(gates) : TaskFailFast(i)
    \/ CloseResults
    \/ Collect
    \/ Aggregate

CleanTree == [unstaged |-> FALSE, untracked |-> FALSE, gateFiles |-> FALSE]
NoStash == [present |-> FALSE, unstaged |-> FALSE, untracked |-> FALSE]

InitEngineVars ==
    /\ failFast \in BOOLEAN
    /\ epc = "idle"
    /\ tpc = <<>>
    /\ tres = <<>>
    /\ resultsCh = <<>>
    /\ chClosed = FALSE
    /\ collected = <<>>
    /\ runResult = EmptyRunResult
    /\ engineCancelled = FALSE
    /\ inflightAtCancel = {}
    /\ events = {}

-----------------------------------------------------------------------------
\* The Git port (git.ExecService) on the working tree and the stash

\* Stash: nothing to stash when the tree matches the index and has no
\* untracked files; otherwise `git stash push --keep-index
\* --include-untracked`. ok is whether the git commands succeed.
\* Yields <<stashed, err, tree', stashEntry'>>.
GitStash(t, st, ok) ==
    IF ~t.unstaged /\ ~ok THEN <<FALSE, TRUE, t, st>>
    ELSE IF ~t.unstaged /\ ~t.untracked THEN <<FALSE, FALSE, t, st>>
    ELSE IF ~ok THEN <<FALSE, TRUE, t, st>>
    ELSE <<TRUE, FALSE,
           [t EXCEPT !.unstaged = FALSE, !.untracked = FALSE],
           [present |-> TRUE, unstaged |-> t.unstaged, untracked |-> t.untracked]>>

\* StashPop: find the marker-bearing entry and pop it; no entry is a no-op.
\* Yields <<err, tree', stashEntry'>>.
GitStashPop(t, st, ok) ==
    IF ~ok THEN <<TRUE, t, st>>
    ELSE IF st.present
         THEN <<FALSE, [t EXCEPT !.unstaged = st.unstaged, !.untracked = st.untracked],
                NoStash>>
         ELSE <<FALSE, t, st>>

\* CleanWritableFiles: `git checkout -- .` then `git clean -fd`.
\* Yields <<err, tree'>>.
GitCleanWritableFiles(t, outcome) ==
    IF outcome = "checkoutFailed" THEN <<TRUE, t>>
    ELSE IF outcome = "cleanFailed" THEN <<TRUE, [t EXCEPT !.unstaged = FALSE]>>
    ELSE <<FALSE, CleanTree>>

CleanOutcomes == {"ok", "checkoutFailed", "cleanFailed"}

-----------------------------------------------------------------------------
\* Pipeline.Execute

\* One entry of callLog.
Call(op, err) == [op |-> op, err |-> err]

\* A `return v` of Execute: the deferred function runs first when it was
\* registered (stashed), otherwise Execute has returned.
ReturnTo(st) == IF st THEN "deferStop" ELSE "returned"

\* 1. Load project configuration.
LoadConfig ==
    /\ Alive /\ ppc = "loadConfig"
    /\ \E ok \in BOOLEAN :
          IF ok THEN ppc' = "globalConfig" /\ ret' = ret
          ELSE ppc' = "returned" /\ ret' = "error"
    /\ UNCHANGED <<dryRun, stashed, notify, sigCh, hpc, sigCount, proc, exitCode,
                   callLog, tree, stashEntry, entryTree>>
    /\ UNCHANGED engineVars
    /\ UNCHANGED <<poolVars, gateVars, libVars>>

\* 2. The global configuration must be loaded.
GlobalConfig ==
    /\ Alive /\ ppc = "globalConfig"
    /\ \E loaded \in BOOLEAN :
          IF loaded THEN ppc' = "checkDocker" /\ ret' = ret
          ELSE ppc' = "returned" /\ ret' = "error"
    /\ UNCHANGED <<dryRun, stashed, notify, sigCh, hpc, sigCount, proc, exitCode,
                   callLog, tree, stashEntry, entryTree>>
    /\ UNCHANGED engineVars
    /\ UNCHANGED <<poolVars, gateVars, libVars>>

\* CheckDocker with its error dropped: the pipeline goes on to the stash.
CheckDockerIgnoringError ==
    /\ Alive /\ ppc = "checkDocker"
    /\ \E ok \in BOOLEAN :
          /\ callLog' = Append(callLog, Call("CheckDocker", ~ok))
          /\ ppc' = "stash" /\ ret' = ret
    /\ UNCHANGED <<dryRun, stashed, notify, sigCh, hpc, sigCount, proc, exitCode,
                   tree, stashEntry, entryTree>>
    /\ UNCHANGED engineVars
    /\ UNCHANGED <<poolVars, gateVars, libVars>>

\* 3. Docker pre-flight check.
CheckDocker ==
    /\ Alive /\ ppc = "checkDocker"
    /\ \E ok \in BOOLEAN :
          /\ callLog' = Append(callLog, Call("CheckDocker", ~ok))
          /\ IF ok THEN ppc' = "stash" /\ ret' = ret
             ELSE ppc' = "returned" /\ ret' = "error"
    /\ UNCHANGED <<dryRun, stashed, notify, sigCh, hpc, sigCount, proc, exitCode,
                   tree, stashEntry, entryTree>>
    /\ UNCHANGED engineVars
    /\ UNCHANGED <<poolVars, gateVars, libVars>>

\* 4. Stash unstaged changes.
Stash ==
    /\ Alive /\ ppc = "stash"
    /\ \E ok \in BOOLEAN :
          LET res == GitStash(tree, stashEntry, ok) IN
            /\ callLog' = Append(callLog, Call("Stash", res[2]))
            /\ stashed' = res[1]
            /\ tree' = res[3]
            /\ stashEntry' = res[4]
            /\ IF res[2] THEN ppc' = "returned" /\ ret' = "error"
               ELSE ppc' = "handler" /\ ret' = ret
    /\ UNCHANGED <<dryRun, notify, sigCh, hpc, sigCount, proc, exitCode,
                   entryTree>>
    /\ UNCHANGED engineVars
    /\ UNCHANGED <<poolVars, gateVars, libVars>>

\* If stashed: signal.Notify, start the signal goroutine, register the
\* deferred pop.
InstallHandler ==
    /\ Alive /\ ppc = "handler"
    /\ IF stashed THEN notify' = TRUE /\ hpc' = "wait"
       ELSE UNCHANGED <<notify, hpc>>
    /\ ppc' = "stagedFiles"
    /\ UNCHANGED <<dryRun, ret, stashed, sigCh, sigCount, proc, exitCode,
                   callLog, tree, stashEntry, entryTree>>
    /\ UNCHANGED engineVars
    /\ UNCHANGED <<poolVars, gateVars, libVars>>

\* 5. Get staged files for filtering.
StagedFiles ==
    /\ Alive /\ ppc = "stagedFiles"
    /\ \E ok \in BOOLEAN :
          /\ callLog' = Append(callLog, Call("StagedFiles", ~ok))
          /\ IF ok THEN ppc' = "filter" /\ ret' = ret
             ELSE ppc' = ReturnTo(stashed) /\ ret' = "error"
    /\ UNCHANGED <<dryRun, stashed, notify, sigCh, hpc, sigCount, proc, exitCode,
                   tree, stashEntry, entryTree>>
    /\ UNCHANGED engineVars
    /\ UNCHANGED <<poolVars, gateVars, libVars>>

\* 6-7. filterSkippedGates and gate.FilterGates keep a subsequence of the
\* configured gates (which one depends on --skip, --skip-llm and the staged
\* files); no gate left returns nil.
FilterGates ==
    /\ Alive /\ ppc = "filter"
    /\ \E keep \in SUBSET (1..Len(gates)) :
          LET kept == SelectSeq([i \in 1..Len(gates) |-> [i |-> i, g |-> gates[i]]],
                                LAMBDA e : e.i \in keep)
          IN gates' = [k \in 1..Len(kept) |-> kept[k].g]
    /\ IF Len(gates') = 0 THEN ppc' = ReturnTo(stashed) /\ ret' = "nil"
       ELSE ppc' = "createAll" /\ ret' = ret
    /\ UNCHANGED <<failFast, epc, tpc, tres, resultsCh, chClosed, collected,
                   runResult, callerCancelled, engineCancelled, inflightAtCancel,
                   gateNames, progress, events>>
    /\ UNCHANGED <<dryRun, stashed, notify, sigCh, hpc, sigCount, proc, exitCode,
                   callLog, tree, stashEntry, entryTree>>
    /\ UNCHANGED <<poolVars, gateVars, libVars>>

\* 8. Create gate instances.
CreateAll ==
    /\ Alive /\ ppc = "createAll"
    /\ \E ok \in BOOLEAN :
          IF ok THEN ppc' = "runAll" /\ ret' = ret
          ELSE ppc' = ReturnTo(stashed) /\ ret' = "error"
    /\ UNCHANGED <<dryRun, stashed, notify, sigCh, hpc, sigCount, proc, exitCode,
                   callLog, tree, stashEntry, entryTree>>
    /\ UNCHANGED engineVars
    /\ UNCHANGED <<poolVars, gateVars, libVars>>

\* 9-10. Build the gate names (a gate's name is its position) and execute
\* the gates in parallel: the call of Runner.RunAll.
RunAll ==
    /\ Alive /\ ppc = "runAll" /\ epc = "idle"
    /\ gateNames' = [i \in 1..Len(gates) |-> i]
    /\ RunAllStart
    /\ UNCHANGED pipeVars
    /\ UNCHANGED <<poolVars, gateVars, libVars>>

\* RunAll has returned (the engine never returns an error).
RunAllReturn ==
    /\ Alive /\ ppc = "runAll" /\ epc = "returned"
    /\ ppc' = "clean"
    /\ UNCHANGED <<dryRun, ret, stashed, notify, sigCh, hpc, sigCount, proc, exitCode,
                   callLog, tree, stashEntry, entryTree>>
    /\ UNCHANGED engineVars
    /\ UNCHANGED <<poolVars, gateVars, libVars>>

\* A writable gate running in its container writes into the project tree.
GateWrite(i) ==
    /\ Alive /\ epc = "collect" /\ tpc[i] = "exec"
    /\ gates[i].writable
    /\ ~tree.gateFiles
    /\ tree' = [tree EXCEPT !.gateFiles = TRUE]
    /\ UNCHANGED <<dryRun, ppc, ret, stashed, notify, sigCh, hpc, sigCount, proc,
                   exitCode, callLog, stashEntry, entryTree>>
    /\ UNCHANGED engineVars
    /\ UNCHANGED <<poolVars, gateVars, libVars>>

\* Some gate of the run is writable.
AnyWritable(gs) == \E i \in 1..Len(gs) : gs[i].writable

\* 11. Clean up writable file modifications (an error is only logged).
CleanWritable ==
    /\ Alive /\ ppc = "clean"
    /\ IF AnyWritable(gates)
       THEN \E o \in CleanOutcomes :
               LET res == GitCleanWritableFiles(tree, o) IN
                 /\ callLog' = Append(callLog, Call("CleanWritableFiles", res[1]))
                 /\ tree' = res[2]
       ELSE UNCHANGED <<callLog, tree>>
    /\ ppc' = "format"
    /\ UNCHANGED <<dryRun, ret, stashed, notify, sigCh, hpc, sigCount, proc, exitCode,
                   stashEntry, entryTree>>
    /\ UNCHANGED engineVars
    /\ UNCHANGED <<poolVars, gateVars, libVars>>

\* ExitValue without the dry-run case.
ExitValueIgnoringDryRun(dry, rr) == IF ~rr.passed THEN "ErrGatesFailed" ELSE "nil"

\* 13. The return value after formatting.
ExitValue(dry, rr) == IF dry THEN "nil" ELSE IF ~rr.passed THEN "ErrGatesFailed" ELSE "nil"

\* 12-13. Format and print results, determine the exit code.
FormatAndReturn ==
    /\ Alive /\ ppc = "format"
    /\ \E dry \in BOOLEAN :
          /\ dryRun' = dry
          /\ ret' = ExitValue(dry, runResult)
    /\ ppc' = ReturnTo(stashed)
    /\ UNCHANGED <<stashed, notify, sigCh, hpc, sigCount, proc, exitCode,
                   callLog, tree, stashEntry, entryTree>>
    /\ UNCHANGED engineVars
    /\ UNCHANGED <<poolVars, gateVars, libVars>>

\* A panic in Execute's goroutine after the stash: deferred functions run,
\* then the process crashes.
PanicPoints == {"stagedFiles", "filter", "createAll", "clean", "format"}

Panic ==
    /\ Alive /\ ppc \in PanicPoints
    /\ ret' = "panic"
    /\ ppc' = ReturnTo(stashed)
    /\ UNCHANGED <<dryRun, stashed, notify, sigCh, hpc, sigCount, proc, exitCode,
                   callLog, tree, stashEntry, entryTree>>
    /\ UNCHANGED engineVars
    /\ UNCHANGED <<poolVars, gateVars, libVars>>

\* The deferred function, first statement: signal.Stop(sigCh).
DeferStop ==
    /\ Alive /\ ppc = "deferStop"
    /\ notify' = FALSE
    /\ ppc' = "deferPop"
    /\ UNCHANGED <<dryRun, ret, stashed, sigCh, hpc, sigCount, proc, exitCode,
                   callLog, tree, stashEntry, entryTree>>
    /\ UNCHANGED engineVars
    /\ UNCHANGED <<poolVars, gateVars, libVars>>

\* Execute returning the deferred pop's error in place of its own value.
ReturnPopError(r, popErr) == IF popErr THEN "error" ELSE r

\* Execute's return value once the deferred function has run: the value of
\* the return statement (the result is unnamed; popErr is only logged).
ReturnAfterPop(r, popErr) == r

\* The deferred function, second statement: StashPop (an error is logged).
DeferPop ==
    /\ Alive /\ ppc = "deferPop"
    /\ \E ok \in BOOLEAN :
          LET res == GitStashPop(tree, stashEntry, ok) IN
            /\ callLog' = Append(callLog, Call("StashPop", res[1]))
            /\ tree' = res[2]
            /\ stashEntry' = res[3]
            /\ ret' = ReturnAfterPop(ret, res[1])
    /\ ppc' = "returned"
    /\ UNCHANGED <<dryRun, stashed, notify, sigCh, hpc, sigCount, proc, exitCode,
                   entryTree>>
    /\ UNCHANGED engineVars
    /\ UNCHANGED <<poolVars, gateVars, libVars>>

\* Execute has returned: run's RunE exits 1 on ErrGatesFailed, main exits 1
\* on any other error, a panic crashes with status 2.
StatusOf(r) == IF r = "nil" THEN 0 ELSE IF r = "panic" THEN 2 ELSE 1

ProcessExit ==
    /\ Alive /\ ppc = "returned"
    /\ proc' = "exited"
    /\ exitCode' = StatusOf(ret)
    /\ UNCHANGED <<dryRun, ppc, ret, stashed, notify, sigCh, hpc, sigCount,
                   callLog, tree, stashEntry, entryTree>>
    /\ UNCHANGED engineVars
    /\ UNCHANGED <<poolVars, gateVars, libVars>>

\* SIGINT or SIGTERM is delivered: queued on sigCh while Notify is in
\* effect (dropped when the buffer is full), otherwise the default
\* disposition terminates the process.
Signal ==
    /\ Alive /\ ppc # "direct"
    /\ sigCount < MaxSignals
    /\ sigCount' = sigCount + 1
    /\ IF notify
       THEN /\ sigCh' = 1
            /\ UNCHANGED <<proc, exitCode>>
       ELSE /\ proc' = "killed"
            /\ exitCode' = 130
            /\ UNCHANGED sigCh
    /\ UNCHANGED <<dryRun, ppc, ret, stashed, notify, hpc, callLog, tree,
                   stashEntry, entryTree>>
    /\ UNCHANGED engineVars
    /\ UNCHANGED <<poolVars, gateVars, libVars>>

\* The signal goroutine receives from sigCh.
HandlerRecv ==
    /\ Alive /\ hpc = "wait" /\ sigCh > 0
    /\ sigCh' = sigCh - 1
    /\ hpc' = "pop"
    /\ UNCHANGED <<dryRun, ppc, ret, stashed, notify, sigCount, proc, exitCode,
                   callLog, tree, stashEntry, entryTree>>
    /\ UNCHANGED engineVars
    /\ UNCHANGED <<poolVars, gateVars, libVars>>

\* The signal goroutine restores the stash (the error is discarded).
HandlerPop ==
    /\ Alive /\ hpc = "pop"
    /\ \E ok \in BOOLEAN :
          LET res == GitStashPop(tree, stashEntry, ok) IN
            /\ callLog' = Append(callLog, Call("StashPop", res[1]))
            /\ tree' = res[2]
            /\ stashEntry' = res[3]
    /\ hpc' = "exit"
    /\ UNCHANGED <<dryRun, ppc, ret, stashed, notify, sigCh, sigCount, proc, exitCode,
                   entryTree>>
    /\ UNCHANGED engineVars
    /\ UNCHANGED <<poolVars, gateVars, libVars>>

\* The signal goroutine calls os.Exit(1).
HandlerExit ==
    /\ Alive /\ hpc = "exit"
    /\ proc' = "exited"
    /\ exitCode' = 1
    /\ UNCHANGED <<dryRun, ppc, ret, stashed, notify, sigCh, hpc, sigCount,
                   callLog, tree, stashEntry, entryTree>>
    /\ UNCHANGED engineVars
    /\ UNCHANGED <<poolVars, gateVars, libVars>>

-----------------------------------------------------------------------------
\* pool.Pool and the Docker daemon

\* Most containers the daemon is asked to create.
MaxContainers == 2

\* The clock stops after MaxTime ticks.
MaxTime == 2

\* Clock ticks in one second: labels carry whole seconds only.
TicksPerSecond == 2

\* Longest TTL handed to CleanupStale or configured for a run, in ticks.
MaxTTL == 1

\* Strings are sequences of characters. Image references come from
\* gates.yaml unvalidated, project paths from os.Getwd.
Images == {<<"x">>, <<"x", "|", "q">>}
Projects == {<<"p">>, <<"q", "|", "p">>}
Triples == [image : Images, project : Projects, writable : BOOLEAN]

\* fmt.Sprintf("%t", b).
FormatBool(b) == IF b THEN <<"t", "r", "u", "e">> ELSE <<"f", "a", "l", "s", "e">>

\* computePoolKey: the hex digest of "image|project|writable". sha256 is
\* taken to be collision-free, so the key is the formatted string.
computePoolKey(image, projectPath, writable) ==
    image \o <<"|">> \o projectPath \o <<"|">> \o FormatBool(writable)

\* time.Now().Format(time.RFC3339) read back by time.Parse: the instant cut
\* to whole seconds.
FormatRFC3339(t) == (t \div TicksPerSecond) * TicksPerSecond

\* findExistingContainer with the status filter inverted.
findExistingContainerNotRunning(cs, key) ==
    {c.id : c \in {d \in cs : d.key = key /\ ~d.running}}

\* findExistingContainer: the running containers labelled with the key (the
\* caller takes the first the daemon lists).
findExistingContainer(cs, key) ==
    {c.id : c \in {d \in cs : d.key = key /\ d.running}}

\* What the Docker calls of one GetOrCreate do, when a container gets
\* created (a failed list, pull or create returns an error and changes
\* nothing).
DockerOutcomes == {"ok", "startFailed", "startAndRemoveFailed"}

\* GetOrCreate under the pool's mutex: the labelled running container if
\* there is one, otherwise createContainer (pull, create, start; a container
\* that fails to start is force-removed, the removal's error is dropped).
GetOrCreate(img, projectPath, writable) ==
    /\ inv = "running"
    /\ LET key == computePoolKey(img, projectPath, writable)
           t == [image |-> img, project |-> projectPath, writable |-> writable]
           existing == findExistingContainer(containers, key)
       IN \E o \in DockerOutcomes :
            IF existing # {}
            THEN /\ o = "ok"
                 /\ \E id \in existing :
                       /\ returned' = returned \cup {[triple |-> t, id |-> id]}
                       /\ reused' = reused \cup {[triple |-> t, id |-> id]}
                 /\ UNCHANGED <<containers, nextId, created>>
            ELSE /\ nextId <= MaxContainers
                 /\ nextId' = nextId + 1
                 /\ created' = created \cup
                        {[id |-> nextId, triple |-> t, started |-> (o = "ok")]}
                 /\ containers' =
                        IF o = "startFailed" THEN containers
                        ELSE containers \cup
                               {[id |-> nextId, key |-> key,
                                 lastUsed |-> FormatRFC3339(now),
                                 running |-> (o = "ok")]}
                 /\ returned' = IF o = "ok"
                                THEN returned \cup {[triple |-> t, id |-> nextId]}
                                ELSE returned
                 /\ UNCHANGED reused
    /\ UNCHANGED <<now, inv, staleAtStart, lastExec, evictions>>
    /\ UNCHANGED <<engineVars, pipeVars, gateVars, libVars>>

\* Executor.Run in a container that GetOrCreate handed out: the command
\* runs; no label of the container is written.
ExecRun(id) ==
    /\ inv = "running"
    /\ \E r \in returned : r.id = id
    /\ \E c \in containers : c.id = id /\ c.running
    /\ lastExec' = [lastExec EXCEPT ![id] = now]
    /\ UNCHANGED <<containers, nextId, now, inv, staleAtStart, returned, created,
                   evictions>>
    /\ UNCHANGED <<engineVars, pipeVars, gateVars, libVars>>
    /\ UNCHANGED reused

\* The managed containers whose last_used label is before now - ttl.
Stale(cs, t, ttl) == {c \in cs : c.lastUsed < t - ttl}

\* One removal made by a cleanup; sinceExec is the time since a command
\* last ran in the container (-1: none ever ran).
Eviction(c, by, ttl) ==
    [id |-> c.id, key |-> c.key, by |-> by, ttl |-> ttl,
     sinceExec |-> IF lastExec[c.id] = -1 THEN -1 ELSE now - lastExec[c.id]]

\* CleanupStale(ttl): force-remove every managed container whose last_used
\* is before now - ttl; a removal that fails is logged and skipped.
CleanupStale(ttl) ==
    /\ inv # "running"
    /\ \E gone \in SUBSET Stale(containers, now, ttl) :
          /\ gone # {}
          /\ containers' = containers \ gone
          /\ evictions' = evictions \cup {Eviction(c, "stale", ttl) : c \in gone}
    /\ UNCHANGED <<nextId, now, inv, staleAtStart, returned, created, lastExec>>
    /\ UNCHANGED <<engineVars, pipeVars, gateVars, libVars>>
    /\ UNCHANGED reused

\* CleanupAll (gatekeeper cleanup): force-remove every managed container.
CleanupAll ==
    /\ inv # "running"
    /\ \E gone \in SUBSET containers :
          /\ gone # {}
          /\ containers' = containers \ gone
          /\ evictions' = evictions \cup {Eviction(c, "all", 0) : c \in gone}
    /\ UNCHANGED <<nextId, now, inv, staleAtStart, returned, created, lastExec>>
    /\ UNCHANGED <<engineVars, pipeVars, gateVars, libVars>>
    /\ UNCHANGED reused

\* runPipeline begins: a runtime, a Pool and an Executor are built and the
\* pipeline is run with the configured TTL in force; nothing is evicted.
RunPipelineStart ==
    /\ inv # "running"
    /\ inv' = "running"
    /\ \E ttl \in 1..MaxTTL :
          staleAtStart' = {c.id : c \in Stale(containers, now, ttl)}
    /\ UNCHANGED <<containers, nextId, now, returned, created, lastExec, evictions>>
    /\ UNCHANGED <<engineVars, pipeVars, gateVars, libVars>>
    /\ UNCHANGED reused

\* runPipeline returns: the containers stay warm for the next run.
RunPipelineEnd ==
    /\ inv = "running"
    /\ inv' = "ended"
    /\ UNCHANGED <<containers, nextId, now, staleAtStart, returned, created,
                   lastExec, evictions>>
    /\ UNCHANGED <<engineVars, pipeVars, gateVars, libVars>>
    /\ UNCHANGED reused

\* Time passes.
Tick ==
    /\ now < MaxTime
    /\ now' = now + 1
    /\ UNCHANGED <<containers, nextId, inv, staleAtStart, returned, created,
                   lastExec, evictions>>
    /\ UNCHANGED <<engineVars, pipeVars, gateVars, libVars>>
    /\ UNCHANGED reused

\* No command has run in any container.
NoExec == [id \in 1..MaxContainers |-> -1]

\* No container, no run.
IdlePool ==
    /\ containers = {}
    /\ nextId = 1
    /\ now = 0
    /\ inv = "idle"
    /\ staleAtStart = {}
    /\ returned = {}
    /\ created = {}
    /\ lastExec = NoExec
    /\ evictions = {}
    /\ reused = {}

-----------------------------------------------------------------------------
\* One gate: Execute, the engine's collection, the aggregation

\* Most diagnostics a parser or a review yields.
MaxDiagnostics == 1

\* The Gate implementations: ContainerGate, LLMGate, skippedGate and a gate
\* whose Execute returns (nil, err).
GateImpls == {"container", "llm", "skipped", "erroring"}

\* config.Gate.GetOnError: "block" unless on_error is set.
OnErrorPolicies == {"block", "warn"}

\* formatter.GateResult with its diagnostics (len(Errors)) and Skipped.
NewGateResult(cfg) ==
    [name |-> 1, passed |-> FALSE, blocking |-> cfg.blocking, sysErr |-> FALSE,
     errors |-> 0, skipped |-> FALSE]

\* skippedGate.Execute's result: only Name, Type, Passed and Skipped are set.
SkippedResult ==
    [name |-> 1, passed |-> TRUE, blocking |-> FALSE, sysErr |-> FALSE,
     errors |-> 0, skipped |-> TRUE]

\* `return result, nil`.
ReturnResult(res) == [hasResult |-> TRUE, result |-> res, hasErr |-> FALSE]

\* SystemErrorReturn handing the failure up as Execute's error.
SystemErrorReturnAsError(res) ==
    [hasResult |-> FALSE, result |-> ZeroResult, hasErr |-> TRUE]

\* SystemErrorReturn with Passed set as well.
SystemErrorReturnPassed(res) ==
    ReturnResult([res EXCEPT !.sysErr = TRUE, !.passed = TRUE])

\* `result.SystemError = fmt.Sprintf(...); return result, nil`: the failure
\* exits of ContainerGate.Execute and LLMGate.Execute.
SystemErrorReturn(res) == ReturnResult([res EXCEPT !.sysErr = TRUE])

\* Execute begins: the result is allocated (Blocking from cfg.IsBlocking);
\* skippedGate and the erroring gate return at once.
GateBegin ==
    /\ gpc = "begin"
    /\ gres' = IF gcfg.kind = "skipped" THEN SkippedResult ELSE NewGateResult(gcfg)
    /\ CASE gcfg.kind = "container" ->
              gpc' = "acquire" /\ UNCHANGED gret
         [] gcfg.kind = "llm" ->
              gpc' = "stagedDiff" /\ UNCHANGED gret
         [] gcfg.kind = "skipped" ->
              gpc' = "returned" /\ gret' = ReturnResult(SkippedResult)
         [] gcfg.kind = "erroring" ->
              gpc' = "returned"
              /\ gret' = [hasResult |-> FALSE, result |-> ZeroResult, hasErr |-> TRUE]
    /\ UNCHANGED <<gcfg, gslot, grun, xpc, xret, streamDone, gctxDone, woke>>
    /\ UNCHANGED <<engineVars, pipeVars, poolVars, libVars>>
    /\ UNCHANGED firstFired
    /\ UNCHANGED llmTrace
    /\ UNCHANGED gfail

\* ContainerGate 1: pool.GetOrCreate.
GateAcquire ==
    /\ gpc = "acquire"
    /\ \E ok \in BOOLEAN :
          IF ok THEN gpc' = "run" /\ xpc' = "create" /\ UNCHANGED gret
          ELSE gpc' = "returned" /\ gret' = SystemErrorReturn(gres) /\ UNCHANGED xpc
    /\ gfail' = IF gpc' = "returned" THEN "acquire" ELSE gfail
    /\ UNCHANGED <<gcfg, gres, gslot, grun, xret, streamDone, gctxDone, woke>>
    /\ UNCHANGED <<engineVars, pipeVars, poolVars, libVars>>
    /\ UNCHANGED firstFired
    /\ UNCHANGED llmTrace

\* What Executor.Run returns: an ExecResult or an error.
RunOk == [ok |-> TRUE, err |-> "none"]
RunErr(e) == [ok |-> FALSE, err |-> e]

\* Executor.Run 1: ContainerExecCreate.
ExecCreate ==
    /\ gpc = "run" /\ xpc = "create"
    /\ \E ok \in BOOLEAN :
          IF ok THEN xpc' = "attach" /\ UNCHANGED xret
          ELSE xpc' = "done" /\ xret' = RunErr("creating exec")
    /\ UNCHANGED <<gcfg, gpc, gres, gret, gslot, grun, streamDone, gctxDone, woke>>
    /\ UNCHANGED <<engineVars, pipeVars, poolVars, libVars>>
    /\ UNCHANGED firstFired
    /\ UNCHANGED llmTrace
    /\ UNCHANGED gfail

\* Executor.Run 2-3: ContainerExecAttach, then the output goroutine starts.
ExecAttach ==
    /\ gpc = "run" /\ xpc = "attach"
    /\ \E ok \in BOOLEAN :
          IF ok THEN xpc' = "select" /\ UNCHANGED xret
          ELSE xpc' = "done" /\ xret' = RunErr("attaching to exec")
    /\ UNCHANGED <<gcfg, gpc, gres, gret, gslot, grun, streamDone, gctxDone, woke>>
    /\ UNCHANGED <<engineVars, pipeVars, poolVars, libVars>>
    /\ UNCHANGED firstFired
    /\ UNCHANGED llmTrace
    /\ UNCHANGED gfail

\* The event that fired first keeps its place once one has fired.
FirstOf(first, ev) == IF first = "none" THEN ev ELSE first

\* The output goroutine reaches the end of the stream (or a read error)
\* and sends on outputDone before Run has entered the select.
StreamComplete ==
    /\ gpc = "run" /\ xpc = "select" /\ ~streamDone
    /\ streamDone' = TRUE
    /\ UNCHANGED <<gcfg, gpc, gres, gret, gslot, grun, xpc, xret, gctxDone, woke>>
    /\ UNCHANGED <<engineVars, pipeVars, poolVars, libVars>>
    /\ firstFired' = FirstOf(firstFired, "output")
    /\ UNCHANGED llmTrace
    /\ UNCHANGED gfail

\* The context handed to Execute is cancelled (fail-fast or the caller)
\* while Execute is not waiting in the select.
CtxCancel ==
    /\ gpc \in {"acquire", "run", "parse", "stagedDiff", "filterBySize", "review"}
    /\ xpc # "parked" /\ ~gctxDone
    /\ gctxDone' = TRUE
    /\ UNCHANGED <<gcfg, gpc, gres, gret, gslot, grun, xpc, xret, streamDone, woke>>
    /\ UNCHANGED <<engineVars, pipeVars, poolVars, libVars>>
    /\ firstFired' = FirstOf(firstFired, "ctx")
    /\ UNCHANGED llmTrace
    /\ UNCHANGED gfail

\* The select's timer case taken as if the output had arrived.
SelectCaseTimerAsOutput(c, readErr) ==
    IF c = "output" /\ readErr THEN <<"done", RunErr("reading output")>>
    ELSE IF c = "ctx" THEN <<"done", RunErr("context canceled")>>
    ELSE <<"inspect", RunOk>>

\* The select's cancellation case falling through to the inspection.
SelectCaseCtxFallsThrough(c, readErr) ==
    IF c = "output" /\ readErr THEN <<"done", RunErr("reading output")>>
    ELSE IF c = "timer" THEN <<"done", RunErr("deadline exceeded")>>
    ELSE <<"inspect", RunOk>>

\* The body of the select case taken: <<xpc', xret'>>.
SelectCase(c, readErr) ==
    IF c = "output"
    THEN IF readErr THEN <<"done", RunErr("reading output")>> ELSE <<"inspect", RunOk>>
    ELSE IF c = "ctx" THEN <<"done", RunErr("context canceled")>>
    ELSE <<"done", RunErr("deadline exceeded")>>

\* Executor.Run 4, entering the select: a case that is ready is taken (any
\* of them when several are); with none ready Run waits. The timer is
\* armed here with a positive timeout, so it is not yet ready.
SelectPoll ==
    /\ gpc = "run" /\ xpc = "select"
    /\ LET ready == {c \in {"output"} : streamDone} \cup {c \in {"ctx"} : gctxDone} IN
         IF ready = {}
         THEN xpc' = "parked" /\ UNCHANGED <<xret, woke>>
         ELSE \E c \in ready, readErr \in BOOLEAN :
                 /\ xpc' = SelectCase(c, readErr)[1]
                 /\ xret' = SelectCase(c, readErr)[2]
                 /\ woke' = c
    /\ UNCHANGED <<gcfg, gpc, gres, gret, gslot, grun, streamDone, gctxDone>>
    /\ UNCHANGED <<engineVars, pipeVars, poolVars, libVars>>
    /\ UNCHANGED firstFired
    /\ UNCHANGED llmTrace
    /\ UNCHANGED gfail

\* Executor.Run 4, waiting in the select: the first of output completion,
\* cancellation and timer expiry wakes Run with its case.
SelectWake(c) ==
    /\ gpc = "run" /\ xpc = "parked"
    /\ \E readErr \in BOOLEAN :
          /\ xpc' = SelectCase(c, readErr)[1]
          /\ xret' = SelectCase(c, readErr)[2]
    /\ woke' = c
    /\ streamDone' = (c = "output")
    /\ gctxDone' = (c = "ctx")
    /\ UNCHANGED <<gcfg, gpc, gres, gret, gslot, grun>>
    /\ UNCHANGED <<engineVars, pipeVars, poolVars, libVars>>
    /\ firstFired' = FirstOf(firstFired, c)
    /\ UNCHANGED llmTrace
    /\ UNCHANGED gfail

\* Executor.Run 5: ContainerExecInspect, then the ExecResult.
ExecInspect ==
    /\ gpc = "run" /\ xpc = "inspect"
    /\ \E ok \in BOOLEAN :
          xret' = IF ok THEN RunOk ELSE RunErr("inspecting exec")
    /\ xpc' = "done"
    /\ UNCHANGED <<gcfg, gpc, gres, gret, gslot, grun, streamDone, gctxDone, woke>>
    /\ UNCHANGED <<engineVars, pipeVars, poolVars, libVars>>
    /\ UNCHANGED firstFired
    /\ UNCHANGED llmTrace
    /\ UNCHANGED gfail

\* ContainerGate 3: executor.Run has returned.
GateRunReturn ==
    /\ gpc = "run" /\ xpc = "done"
    /\ IF xret.ok THEN gpc' = "parse" /\ UNCHANGED gret
       ELSE gpc' = "returned" /\ gret' = SystemErrorReturn(gres)
    /\ gfail' = IF xret.ok THEN gfail ELSE "exec"
    /\ UNCHANGED <<gcfg, gres, gslot, grun, xpc, xret, streamDone, gctxDone, woke>>
    /\ UNCHANGED <<engineVars, pipeVars, poolVars, libVars>>
    /\ UNCHANGED firstFired
    /\ UNCHANGED llmTrace

\* ContainerGate 4-5: parser.Parse; Passed and Errors are the parser's.
GateParse ==
    /\ gpc = "parse"
    /\ \/ /\ gret' = SystemErrorReturn(gres)
          /\ gfail' = "parser"
          /\ UNCHANGED gres
       \/ \E p \in BOOLEAN, n \in 0..MaxDiagnostics :
             /\ gres' = [gres EXCEPT !.passed = p, !.errors = n]
             /\ gret' = ReturnResult(gres')
             /\ UNCHANGED gfail
    /\ gpc' = "returned"
    /\ UNCHANGED <<gcfg, gslot, grun, xpc, xret, streamDone, gctxDone, woke>>
    /\ UNCHANGED <<engineVars, pipeVars, poolVars, libVars>>
    /\ UNCHANGED firstFired
    /\ UNCHANGED llmTrace

\* LLMGate 1: gitSvc.StagedDiff; no staged diff passes the gate.
LlmStagedDiff ==
    /\ gpc = "stagedDiff"
    /\ \E o \in {"error", "empty", "diffs"} :
          /\ llmTrace' = Append(llmTrace, o)
          /\ CASE o = "error" ->
                    /\ gpc' = "returned" /\ gret' = SystemErrorReturn(gres)
                    /\ gfail' = "stagedDiff" /\ UNCHANGED gres
               [] o = "empty" ->
                    /\ gres' = [gres EXCEPT !.passed = TRUE]
                    /\ gpc' = "returned" /\ gret' = ReturnResult(gres')
                    /\ UNCHANGED gfail
               [] o = "diffs" ->
                    gpc' = "filterBySize" /\ UNCHANGED <<gres, gret, gfail>>
    /\ UNCHANGED <<gcfg, gslot, grun, xpc, xret, streamDone, gctxDone, woke>>
    /\ UNCHANGED <<engineVars, pipeVars, poolVars, libVars>>
    /\ UNCHANGED firstFired

\* LLMGate 2 without the check for an empty filtered set: the review is
\* made of no diff at all.
LlmFilterBySizeUnchecked ==
    /\ gpc = "filterBySize"
    /\ \E left \in BOOLEAN :
          /\ llmTrace' = Append(llmTrace, IF left THEN "left" ELSE "noneLeft")
          /\ gpc' = "review" /\ UNCHANGED <<gres, gret>>
    /\ UNCHANGED <<gcfg, gslot, grun, xpc, xret, streamDone, gctxDone, woke>>
    /\ UNCHANGED <<engineVars, pipeVars, poolVars, libVars>>
    /\ UNCHANGED <<firstFired, gfail>>

\* LLMGate 2: git.FilterBySize; nothing left to review passes the gate.
LlmFilterBySize ==
    /\ gpc = "filterBySize"
    /\ \E left \in BOOLEAN :
          /\ llmTrace' = Append(llmTrace, IF left THEN "left" ELSE "noneLeft")
          /\ IF left THEN gpc' = "review" /\ UNCHANGED <<gres, gret>>
             ELSE /\ gres' = [gres EXCEPT !.passed = TRUE]
                  /\ gpc' = "returned" /\ gret' = ReturnResult(gres')
    /\ UNCHANGED <<gcfg, gslot, grun, xpc, xret, streamDone, gctxDone, woke>>
    /\ UNCHANGED <<engineVars, pipeVars, poolVars, libVars>>
    /\ UNCHANGED firstFired
    /\ UNCHANGED gfail

\* LLMGate 3-5: client.Review, then the diagnostics that survive
\* ValidateLineNumbers; the gate passes when none does.
LlmReview ==
    /\ gpc = "review"
    /\ llmTrace' = Append(llmTrace, "review")
    /\ \/ /\ gret' = SystemErrorReturn(gres)
          /\ gfail' = "review"
          /\ UNCHANGED gres
       \/ \E n \in 0..MaxDiagnostics :
             /\ gres' = [gres EXCEPT !.passed = (n = 0), !.errors = n]
             /\ gret' = ReturnResult(gres')
             /\ UNCHANGED gfail
    /\ gpc' = "returned"
    /\ UNCHANGED <<gcfg, gslot, grun, xpc, xret, streamDone, gctxDone, woke>>
    /\ UNCHANGED <<engineVars, pipeVars, poolVars, libVars>>
    /\ UNCHANGED firstFired

\* The engine's collection loop takes what the gate's goroutine sent.
GateCollect ==
    /\ gpc = "returned"
    /\ gslot' = CollectSlot(gret)
    /\ gpc' = "collected"
    /\ UNCHANGED <<gcfg, gres, gret, grun, xpc, xret, streamDone, gctxDone, woke>>
    /\ UNCHANGED <<engineVars, pipeVars, poolVars, libVars>>
    /\ UNCHANGED firstFired
    /\ UNCHANGED llmTrace
    /\ UNCHANGED gfail

\* The engine's aggregation over the one slot.
GateAggregate ==
    /\ gpc = "collected"
    /\ grun' = BuildRunResult(<<gslot>>, 1, EmptyRunResult)
    /\ gpc' = "aggregated"
    /\ UNCHANGED <<gcfg, gres, gret, gslot, xpc, xret, streamDone, gctxDone, woke>>
    /\ UNCHANGED <<engineVars, pipeVars, poolVars, libVars>>
    /\ UNCHANGED firstFired
    /\ UNCHANGED llmTrace
    /\ UNCHANGED gfail

\* No gate under way.
IdleGate ==
    /\ gcfg = [kind |-> "skipped", blocking |-> FALSE, onError |-> "block"]
    /\ gpc = "idle"
    /\ gres = ZeroResult
    /\ gret = NoReturn
    /\ gslot = NilSlot
    /\ grun = EmptyRunResult
    /\ xpc = "idle"
    /\ xret = RunOk
    /\ streamDone = FALSE
    /\ gctxDone = FALSE
    /\ woke = "none"
    /\ gfail = "none"
    /\ firstFired = "none"
    /\ llmTrace = <<>>

-----------------------------------------------------------------------------
\* The pre-commit hook (git.ExecService.InstallHook / RemoveHook)

\* Most InstallHook / RemoveHook calls made on one repository.
MaxHookCalls == 3

\* File contents are sequences of lines.
hookMarker == "# gatekeeper-managed"
hookScript == <<"#!/bin/sh", "# gatekeeper-managed", "exec gatekeeper run">>

\* strings.Contains(content, marker), the marker being one whole line.
Contains(content, marker) == \E i \in 1..Len(content) : content[i] = marker

NoFile == [exists |-> FALSE, content |-> <<>>]
File(c) == [exists |-> TRUE, content |-> c]

\* What a repository's pre-commit hook can be before gatekeeper touches it.
HookFiles ==
    {NoFile, File(hookScript), File(<<>>), File(<<"#!/bin/sh", "echo custom hook">>),
     File(<<"#!/bin/sh", "# gatekeeper-managed", "echo custom hook">>)}

\* InstallHook on file f; the arguments are whether `git rev-parse
\* --git-dir`, os.ReadFile (of an existing file), os.MkdirAll and
\* os.WriteFile succeed.  Any ReadFile error is taken as "no hook yet".
\* Yields <<err, file'>>.
InstallHook(f, gitDirOk, readOk, mkdirOk, writeOk) ==
    IF ~gitDirOk THEN <<TRUE, f>>
    ELSE IF f.exists /\ readOk
         THEN IF Contains(f.content, hookMarker) THEN <<FALSE, f>> ELSE <<TRUE, f>>
    ELSE IF ~mkdirOk THEN <<TRUE, f>>
    ELSE IF ~writeOk THEN <<TRUE, f>>
    ELSE <<FALSE, File(hookScript)>>

\* RemoveHook on file f; removeOk is whether os.Remove succeeds.
\* Yields <<err, file'>>.
RemoveHook(f, gitDirOk, readOk, removeOk) ==
    IF ~gitDirOk THEN <<TRUE, f>>
    ELSE IF ~f.exists THEN <<FALSE, f>>
    ELSE IF ~readOk THEN <<TRUE, f>>
    ELSE IF ~Contains(f.content, hookMarker) THEN <<TRUE, f>>
    ELSE IF ~removeOk THEN <<TRUE, f>>
    ELSE <<FALSE, NoFile>>

\* One entry of hookLog.
HookCall(op, before, res) ==
    [op |-> op, before |-> before, err |-> res[1], after |-> res[2]]

\* `gatekeeper init` (or a test) calls InstallHook.
CallInstallHook ==
    /\ Len(hookLog) < MaxHookCalls
    /\ \E gitDirOk \in BOOLEAN, readOk \in BOOLEAN, mkdirOk \in BOOLEAN,
          writeOk \in BOOLEAN :
          LET res == InstallHook(hook, gitDirOk, readOk, mkdirOk, writeOk) IN
            /\ hook' = res[2]
            /\ hookLog' = Append(hookLog, HookCall("InstallHook", hook, res))
    /\ UNCHANGED <<engineVars, pipeVars, poolVars, gateVars, fnVars, reviewVars, stashVars>>

\* `gatekeeper teardown` (or a test) calls RemoveHook.
CallRemoveHook ==
    /\ Len(hookLog) < MaxHookCalls
    /\ \E gitDirOk \in BOOLEAN, readOk \in BOOLEAN, removeOk \in BOOLEAN :
          LET res == RemoveHook(hook, gitDirOk, readOk, removeOk) IN
            /\ hook' = res[2]
            /\ hookLog' = Append(hookLog, HookCall("RemoveHook", hook, res))
    /\ UNCHANGED <<engineVars, pipeVars, poolVars, gateVars, fnVars, reviewVars, stashVars>>

\* No hook call made, no hook file.
IdleHook ==
    /\ hook = NoFile
    /\ hookLog = <<>>

-----------------------------------------------------------------------------
\* The output parsers (parser.GenericParser, SarifParser, GoTestParser)

\* Longest stdout / stderr given to a parser, in bytes.
MaxStdout == 3
MaxStderr == 1

\* The bytes of a tool's output: white space, and one byte standing for a
\* whole JSON value: "e" an error-level SARIF result / a failed test event,
\* "w" a warning-level result / a passing test event, "p" a note-level
\* result / a failed package event, "x" bytes that are not JSON.
Whitespace == {" ", "\n"}
OutputBytes == Whitespace \cup {"e", "w", "p", "x"}
ExitCodes == {0, 1, 2}

RECURSIVE TrimLeft(_)
TrimLeft(s) == IF s # <<>> /\ Head(s) \in Whitespace THEN TrimLeft(Tail(s)) ELSE s

Reverse(s) == [i \in 1..Len(s) |-> s[Len(s) + 1 - i]]

\* strings.TrimSpace / bytes.TrimSpace.
TrimSpace(s) == Reverse(TrimLeft(Reverse(TrimLeft(s))))

\* parser.StructuredError as far as the parsers fill it.
StructuredError(severity, message, tool) ==
    [severity |-> severity, message |-> message, tool |-> tool]

\* What Parse returns: (*ParseResult, nil) or (nil, err).
ParseResult(passed, errors) == [err |-> FALSE, passed |-> passed, errors |-> errors]
ParseError == [err |-> TRUE, passed |-> FALSE, errors |-> <<>>]

\* GenericParser.Parse: the exit code alone decides.
GenericParse(stdout, stderr, code) ==
    IF code = 0 THEN ParseResult(TRUE, <<>>)
    ELSE LET m1 == IF TrimSpace(stderr) = <<>> THEN stdout ELSE stderr
             m2 == IF TrimSpace(m1) = <<>> THEN <<"Tool failed with no output">> ELSE m1
         IN ParseResult(FALSE, <<StructuredError("error", TrimSpace(m2), "generic")>>)

\* The non-whitespace bytes of s, in order.
Values(s) == SelectSeq(s, LAMBDA b : b \notin Whitespace)

\* SarifParser's level-to-severity switch.
SarifSeverity(b) == IF b = "e" THEN "error" ELSE IF b = "w" THEN "warning" ELSE "info"

\* SarifParser.Parse.
SarifParse(stdout, stderr, code) ==
    IF TrimSpace(stdout) = <<>>
    THEN IF code # 0
         THEN ParseResult(FALSE, <<StructuredError("error",
                  IF stderr = <<>>
                  THEN <<"Tool failed with non-zero exit code and empty stdout">>
                  ELSE stderr, "sarif")>>)
         ELSE ParseResult(TRUE, <<>>)
    ELSE IF \E i \in 1..Len(stdout) : stdout[i] = "x" THEN ParseError
    ELSE LET rs == Values(stdout) IN
           ParseResult(\A i \in 1..Len(rs) : rs[i] # "e",
                       [i \in 1..Len(rs) |-> StructuredError(SarifSeverity(rs[i]),
                                                              <<rs[i]>>, "tool")])

\* The lines of s (bufio.Scanner), each trimmed, the empty ones dropped.
RECURSIVE Lines(_, _)
Lines(s, cur) ==
    IF s = <<>> THEN (IF TrimSpace(cur) = <<>> THEN <<>> ELSE <<TrimSpace(cur)>>)
    ELSE IF Head(s) = "\n"
         THEN (IF TrimSpace(cur) = <<>> THEN <<>> ELSE <<TrimSpace(cur)>>)
              \o Lines(Tail(s), <<>>)
         ELSE Lines(Tail(s), Append(cur, Head(s)))

\* json.Unmarshal of one line into a testEvent succeeds.
IsEvent(line) == Len(line) = 1 /\ line[1] \in {"e", "w", "p"}

\* GoTestParser.Parse treating empty stdout as success whatever the exit code.
GoTestParseFailOpen(stdout, stderr, code) ==
    IF TrimSpace(stdout) = <<>> THEN ParseResult(TRUE, <<>>)
    ELSE LET ls == Lines(stdout, <<>>) IN
      IF \E i \in 1..Len(ls) : ~IsEvent(ls[i]) THEN ParseError
      ELSE LET evs == [i \in 1..Len(ls) |-> ls[i][1]]
               tests == SelectSeq(evs, LAMBDA b : b = "e")
               pkgs == IF tests # <<>> THEN <<>> ELSE SelectSeq(evs, LAMBDA b : b = "p")
               errors == [i \in 1..Len(tests) |->
                             StructuredError("error", <<"test failed">>, "go-test")]
                         \o [i \in 1..Len(pkgs) |->
                             StructuredError("error", <<"package failed">>, "go-test")]
           IN ParseResult(errors = <<>> /\ code = 0, errors)

\* GoTestParser.Parse (all events are of one package).
GoTestParse(stdout, stderr, code) ==
    IF TrimSpace(stdout) = <<>>
    THEN IF code # 0
         THEN ParseResult(FALSE, <<StructuredError("error",
                  IF TrimSpace(stderr) = <<>>
                  THEN <<"go test failed with non-zero exit code and empty output">>
                  ELSE TrimSpace(stderr), "go-test")>>)
         ELSE ParseResult(TRUE, <<>>)
    ELSE LET ls == Lines(stdout, <<>>) IN
      IF \E i \in 1..Len(ls) : ~IsEvent(ls[i]) THEN ParseError
      ELSE LET evs == [i \in 1..Len(ls) |-> ls[i][1]]
               tests == SelectSeq(evs, LAMBDA b : b = "e")
               pkgs == IF tests # <<>> THEN <<>> ELSE SelectSeq(evs, LAMBDA b : b = "p")
               errors == [i \in 1..Len(tests) |->
                             StructuredError("error", <<"test failed">>, "go-test")]
                         \o [i \in 1..Len(pkgs) |->
                             StructuredError("error", <<"package failed">>, "go-test")]
           IN ParseResult(errors = <<>> /\ code = 0, errors)

\* A call of a library function: its name and what it returned.
Returned(fn, out) == [fn |-> fn, out |-> out]
NotCalled == [fn |-> "none"]

\* The executor's output of a gate's tool is given to the gate's parser.
ParseGeneric ==
    /\ fnRes' = Returned("generic", GenericParse(fnArg.stdout, fnArg.stderr, fnArg.exitCode))
    /\ UNCHANGED <<engineVars, pipeVars, poolVars, gateVars, hookVars, fnArg, reviewVars, stashVars>>

ParseSarif ==
    /\ fnRes' = Returned("sarif", SarifParse(fnArg.stdout, fnArg.stderr, fnArg.exitCode))
    /\ UNCHANGED <<engineVars, pipeVars, poolVars, gateVars, hookVars, fnArg, reviewVars, stashVars>>

ParseGoTest ==
    /\ fnRes' = Returned("go-test-json", GoTestParse(fnArg.stdout, fnArg.stderr, fnArg.exitCode))
    /\ UNCHANGED <<engineVars, pipeVars, poolVars, gateVars, hookVars, fnArg, reviewVars, stashVars>>

-----------------------------------------------------------------------------
\* llm.ValidateLineNumbers

\* Largest start and count written in a hunk header; most lines of a diff's
\* content; most diffs; most diagnostics.
MaxLineNo == 2
MaxDiffLines == 1
MaxDiffs == 2
MaxErrors == 1

\* The line bound of a diff without a (non-zero) hunk header.
DefaultMaxLine == 10000

\* One line of a diff's content: a hunk header "@@ -a,b +start,count @@"
\* (hasCount is whether ",count" is written) or any other line.
TextLine == [hunk |-> FALSE, start |-> 0, hasCount |-> FALSE, count |-> 0]
HunkLines == [hunk : {TRUE}, start : 0..MaxLineNo, hasCount : {TRUE}, count : 0..MaxLineNo]
             \cup [hunk : {TRUE}, start : 0..MaxLineNo, hasCount : {FALSE}, count : {0}]
DiffLines == {TextLine} \cup HunkLines

\* git.FileDiff.
FileDiffs == [path : {"a.go", "b.go"}, content : SeqsUpTo(DiffLines, MaxDiffLines)]

\* The diagnostics an LLM can report, as far as the validator reads them.
Diagnostics == [file : {"a.go", "c.go"},
                line : (0..(2 * MaxLineNo + 1)) \cup {DefaultMaxLine, DefaultMaxLine + 1}]

\* parseHunkHeader: <<start, count>> of the "+" side, count 1 when absent.
parseHunkHeader(header) ==
    <<header.start, IF header.hasCount THEN header.count ELSE 1>>

\* The loop of buildDiffLineMap over one diff's lines, from line i on.
RECURSIVE MaxHunkEnd(_, _, _)
MaxHunkEnd(content, i, maxLine) ==
    IF i > Len(content) THEN maxLine
    ELSE IF content[i].hunk
         THEN LET h == parseHunkHeader(content[i])
                  end == h[1] + h[2]
              IN MaxHunkEnd(content, i + 1, IF end > maxLine THEN end ELSE maxLine)
         ELSE MaxHunkEnd(content, i + 1, maxLine)

\* buildDiffLineMap: per path, the bound of the last diff with that path;
\* a bound of 0 becomes the default.  A function on the paths of diffs.
buildDiffLineMap(diffs) ==
    [p \in {diffs[i].path : i \in 1..Len(diffs)} |->
        LET last == CHOOSE i \in 1..Len(diffs) :
                       /\ diffs[i].path = p
                       /\ \A j \in 1..Len(diffs) : diffs[j].path = p => j <= i
            maxLine == MaxHunkEnd(diffs[last].content, 1, 0)
        IN IF maxLine = 0 THEN DefaultMaxLine ELSE maxLine]

\* ValidateLineNumbers.
ValidateLineNumbers(errors, diffs) ==
    LET diffLines == buildDiffLineMap(diffs) IN
      SelectSeq(errors, LAMBDA e :
          /\ e.file \in DOMAIN diffLines
          /\ ~(e.line > 0 /\ e.line > diffLines[e.file]))

\* LLMGate.Execute validates what the client returned against the diffs.
Validate ==
    /\ fnRes' = Returned("ValidateLineNumbers",
                         ValidateLineNumbers(fnArg.errors, fnArg.diffs))
    /\ UNCHANGED <<engineVars, pipeVars, poolVars, gateVars, hookVars, fnArg, reviewVars, stashVars>>

-----------------------------------------------------------------------------
\* gate.ShouldRun / gate.FilterGates

\* Longest list of staged files.
MaxStaged == 2

\* A path is a sequence of segments; a segment is a stem and an extension.
Seg(stem, ext) == [stem |-> stem, ext |-> ext]
StagedPaths == {<<Seg("main", "go")>>, <<Seg("cmd", ""), Seg("main", "go")>>,
                <<Seg("README", "md")>>}

\* Glob patterns, segment by segment, "*" standing for any run of
\* characters of one segment: *.go, cmd/*, README.md.
GoFiles == <<Seg("*", "go")>>
CmdDir == <<Seg("cmd", ""), Seg("*", "*")>>
Readme == <<Seg("README", "md")>>

\* config.Gate as far as the filter reads it: the Only and Except lists.
FilterCfgs == [only : {{}, {GoFiles}, {CmdDir}, {GoFiles, Readme}},
               except : {{}, {GoFiles}, {CmdDir}}]

\* One segment against one segment of a pattern.
SegMatch(p, seg) ==
    /\ (p.stem = "*" \/ p.stem = seg.stem)
    /\ (p.ext = "*" \/ p.ext = seg.ext)

\* filepath.Match(pattern, name): "*" never crosses a separator.
Match(pattern, name) ==
    /\ Len(pattern) = Len(name)
    /\ \A i \in 1..Len(name) : SegMatch(pattern[i], name[i])

\* filepath.Base(file).
Base(file) == <<file[Len(file)]>>

\* matchesPattern: the full path or the base name matches some pattern.
matchesPattern(file, patterns) ==
    \E p \in patterns : Match(p, file) \/ Match(p, Base(file))

\* excludeFiles.
excludeFiles(files, patterns) ==
    SelectSeq(files, LAMBDA f : ~matchesPattern(f, patterns))

\* matchesAny.
matchesAny(files, patterns) ==
    \E i \in 1..Len(files) : matchesPattern(files[i], patterns)

\* ShouldRun testing the only patterns on the files before the exclusion.
ShouldRunOnlyBeforeExcept(cfg, stagedFiles) ==
    IF cfg.only = {} /\ cfg.except = {} THEN TRUE
    ELSE IF cfg.only # {} THEN matchesAny(stagedFiles, cfg.only)
    ELSE Len(excludeFiles(stagedFiles, cfg.except)) > 0

\* ShouldRun.
ShouldRun(cfg, stagedFiles) ==
    IF cfg.only = {} /\ cfg.except = {} THEN TRUE
    ELSE LET filtered == IF cfg.except # {} THEN excludeFiles(stagedFiles, cfg.except)
                         ELSE stagedFiles
         IN IF cfg.only # {} THEN matchesAny(filtered, cfg.only)
            ELSE Len(filtered) > 0

\* The loop of FilterGates from gate i on.
RECURSIVE FilterLoop(_, _, _, _)
FilterLoop(gs, stagedFiles, i, result) ==
    IF i > Len(gs) THEN result
    ELSE FilterLoop(gs, stagedFiles, i + 1,
                    IF ShouldRun(gs[i], stagedFiles) THEN Append(result, gs[i])
                    ELSE result)

\* FilterGates without the early return for an empty file list.
FilterGatesAlways(gs, stagedFiles) == FilterLoop(gs, stagedFiles, 1, <<>>)

\* FilterGates appending the kept gates in reverse.
FilterGatesReversed(gs, stagedFiles) ==
    IF Len(stagedFiles) = 0 THEN gs
    ELSE Reverse(FilterLoop(gs, stagedFiles, 1, <<>>))

\* gate.FilterGates.
FilterGatesBy(gs, stagedFiles) ==
    IF Len(stagedFiles) = 0 THEN gs
    ELSE FilterLoop(gs, stagedFiles, 1, <<>>)

\* The pipeline's step 7: FilterGates on the configured gates.
ApplyFilterGates ==
    /\ fnRes.fn = "none"
    /\ fnRes' = [fn |-> "FilterGates", first |-> <<>>,
                 out |-> FilterGatesBy(fnArg.gates, fnArg.files)]
    /\ UNCHANGED <<engineVars, pipeVars, poolVars, gateVars, hookVars, fnArg, reviewVars, stashVars>>

\* ShouldRun on the first configured gate.
CallShouldRun ==
    /\ fnRes.fn = "none" /\ fnArg.gates # <<>>
    /\ fnRes' = [fn |-> "ShouldRun", first |-> <<>>,
                 out |-> ShouldRun(fnArg.gates[1], fnArg.files)]
    /\ UNCHANGED <<engineVars, pipeVars, poolVars, gateVars, hookVars, fnArg, reviewVars, stashVars>>

\* FilterGates on what FilterGates returned, with the same files.
ReapplyFilterGates ==
    /\ fnRes.fn = "FilterGates"
    /\ fnRes' = [fn |-> "FilterGates twice", first |-> fnRes.out,
                 out |-> FilterGatesBy(fnRes.out, fnArg.files)]
    /\ UNCHANGED <<engineVars, pipeVars, poolVars, gateVars, hookVars, fnArg, reviewVars, stashVars>>

-----------------------------------------------------------------------------
\* Pool.GetOrCreate and Pool.CleanupStale against any daemon answers

MaxListed == 2

\* The last_used label of a listed container: absent, or a text that
\* time.Parse(time.RFC3339, _) accepts (giving whole seconds) or rejects.
NoLabel == [present |-> FALSE, parses |-> FALSE, secs |-> 0]
LabelText(parses, secs) == [present |-> TRUE, parses |-> parses, secs |-> secs]
LastUsedLabels ==
    {NoLabel, LabelText(FALSE, 0)}
        \cup {LabelText(TRUE, s) : s \in 0..(MaxTime \div TicksPerSecond)}

\* time.Parse(time.RFC3339, text): the instant, or an error.
ParseRFC3339(label) ==
    [ok |-> label.parses, t |-> label.secs * TicksPerSecond]

\* CleanupStale's loop from container i of the listing on; removeOk holds
\* the containers whose ContainerRemove succeeds.
RECURSIVE CleanupStaleLoop(_, _, _, _, _, _)
CleanupStaleLoop(cs, i, threshold, removeOk, count, attempted) ==
    IF i > Len(cs) THEN [count |-> count, attempted |-> attempted]
    ELSE IF ~cs[i].present
    THEN CleanupStaleLoop(cs, i + 1, threshold, removeOk, count, attempted)
    ELSE IF ~ParseRFC3339(cs[i]).ok
    THEN CleanupStaleLoop(cs, i + 1, threshold, removeOk, count, attempted)
    ELSE IF ParseRFC3339(cs[i]).t < threshold
    THEN CleanupStaleLoop(cs, i + 1, threshold, removeOk,
                          IF i \in removeOk THEN count + 1 ELSE count,
                          attempted \cup {i})
    ELSE CleanupStaleLoop(cs, i + 1, threshold, removeOk, count, attempted)

\* CleanupStale counting the removals it attempted.
CleanupStaleCountingAttempts(cs, t, ttl, listOk, removeOk) ==
    IF ~listOk THEN [count |-> 0, err |-> TRUE, attempted |-> {}]
    ELSE LET r == CleanupStaleLoop(cs, 1, t - ttl, removeOk, 0, {})
         IN [count |-> Cardinality(r.attempted), err |-> FALSE,
             attempted |-> r.attempted]

\* Pool.CleanupStale at time t on the listing cs (container i is cs[i]):
\* the count and error returned, and the containers ContainerRemove was
\* called on.
CleanupStaleOn(cs, t, ttl, listOk, removeOk) ==
    IF ~listOk THEN [count |-> 0, err |-> TRUE, attempted |-> {}]
    ELSE LET r == CleanupStaleLoop(cs, 1, t - ttl, removeOk, 0, {})
         IN [count |-> r.count, err |-> FALSE, attempted |-> r.attempted]

CleanupStaleArgs ==
    [fn : {"CleanupStale"}, list : SeqsUpTo(LastUsedLabels, MaxListed),
     now : 0..MaxTime, ttl : 0..MaxTTL, listOk : BOOLEAN,
     removeOk : SUBSET (1..MaxListed)]

CallCleanupStale ==
    /\ fnRes.fn = "none" /\ fnArg.fn = "CleanupStale"
    /\ fnRes' = [fn |-> "CleanupStale",
                 out |-> CleanupStaleOn(fnArg.list, fnArg.now, fnArg.ttl,
                                        fnArg.listOk, fnArg.removeOk)]
    /\ UNCHANGED <<engineVars, pipeVars, poolVars, gateVars, hookVars, fnArg, reviewVars, stashVars>>

\* Container ids; "" is Go's empty string.
NoId == ""
ExistingId == "c0"
NewId == "c1"

\* user.Current(): an error, or the invoking user.
Uids == {"0", "1000"}
UserLookups == [ok : BOOLEAN, uid : Uids, gid : Uids]

\* getUserString: fmt.Sprintf("%s:%s", u.Uid, u.Gid).
getUserString(u) == <<u.uid, ":", u.gid>>

\* container.Config.User left unset.
NoUser == <<>>

\* A call made on the runtime.
RuntimeCall(op, id, user, force) ==
    [op |-> op, id |-> id, user |-> user, force |-> force]

\* What GetOrCreate returns, with the runtime calls it made.
PoolReturn(id, err, calls) == [id |-> id, err |-> err, calls |-> calls]

\* createContainer running a writable container as the image's user when
\* the lookup fails.
createContainerRootFallback(writable, u, pullOk, createOk, startOk) ==
    LET pull == <<RuntimeCall("ImagePull", NoId, NoUser, FALSE)>>
        usr == IF writable /\ u.ok THEN getUserString(u) ELSE NoUser
        create == pull \o <<RuntimeCall("ContainerCreate", NoId, usr, FALSE)>>
        start == create \o <<RuntimeCall("ContainerStart", NewId, NoUser, FALSE)>>
    IN IF ~pullOk THEN PoolReturn(NoId, "pulling image", pull)
       ELSE IF ~createOk THEN PoolReturn(NoId, "creating container", create)
       ELSE IF ~startOk
       THEN PoolReturn(NoId, "starting container",
                       start \o <<RuntimeCall("ContainerRemove", NewId, NoUser, TRUE)>>)
       ELSE PoolReturn(NewId, "none", start)

\* createContainer handing out the container that failed to start.
createContainerKeepsFailed(writable, u, pullOk, createOk, startOk) ==
    LET pull == <<RuntimeCall("ImagePull", NoId, NoUser, FALSE)>>
        usr == IF writable THEN getUserString(u) ELSE NoUser
        create == pull \o <<RuntimeCall("ContainerCreate", NoId, usr, FALSE)>>
        start == create \o <<RuntimeCall("ContainerStart", NewId, NoUser, FALSE)>>
    IN IF ~pullOk THEN PoolReturn(NoId, "pulling image", pull)
       ELSE IF writable /\ ~u.ok THEN PoolReturn(NoId, "getting current user", pull)
       ELSE IF ~createOk THEN PoolReturn(NoId, "creating container", create)
       ELSE PoolReturn(NewId, "none", start)

\* createContainer: pull, the user of a writable container, create, start;
\* a container that fails to start is force-removed (the removal's own
\* error is dropped) and the start error returned.
createContainer(writable, u, pullOk, createOk, startOk) ==
    LET pull == <<RuntimeCall("ImagePull", NoId, NoUser, FALSE)>>
        usr == IF writable THEN getUserString(u) ELSE NoUser
        create == pull \o <<RuntimeCall("ContainerCreate", NoId, usr, FALSE)>>
        start == create \o <<RuntimeCall("ContainerStart", NewId, NoUser, FALSE)>>
    IN IF ~pullOk THEN PoolReturn(NoId, "pulling image", pull)
       ELSE IF writable /\ ~u.ok THEN PoolReturn(NoId, "getting current user", pull)
       ELSE IF ~createOk THEN PoolReturn(NoId, "creating container", create)
       ELSE IF ~startOk
       THEN PoolReturn(NoId, "starting container",
                       start \o <<RuntimeCall("ContainerRemove", NewId, NoUser, TRUE)>>)
       ELSE PoolReturn(NewId, "none", start)

\* GetOrCreate: the running container found for the key, else
\* createContainer.
GetOrCreateOn(a) ==
    LET list == <<RuntimeCall("ContainerList", NoId, NoUser, FALSE)>> IN
    IF ~a.findOk THEN PoolReturn(NoId, "finding existing container", list)
    ELSE IF a.existing # NoId THEN PoolReturn(a.existing, "none", list)
    ELSE LET r == createContainer(a.writable, a.user, a.pullOk, a.createOk, a.startOk)
         IN PoolReturn(r.id, r.err, list \o r.calls)

GetOrCreateArgs ==
    [fn : {"GetOrCreate"}, existing : {NoId, ExistingId}, findOk : BOOLEAN,
     writable : BOOLEAN, user : UserLookups, pullOk : BOOLEAN,
     createOk : BOOLEAN, startOk : BOOLEAN]

CallGetOrCreate ==
    /\ fnRes.fn = "none" /\ fnArg.fn = "GetOrCreate"
    /\ fnRes' = [fn |-> "GetOrCreate", out |-> GetOrCreateOn(fnArg)]
    /\ UNCHANGED <<engineVars, pipeVars, poolVars, gateVars, hookVars, fnArg, reviewVars, stashVars>>

\* No library function called.
IdleFn ==
    /\ fnArg = NotCalled
    /\ fnRes = NotCalled

-----------------------------------------------------------------------------
\* llm.GeminiClient.Review

maxRetries == 3
initialBackoff == 1

\* What client.GenerateContent gives back: an error, or a response that is
\* a JSON array of n diagnostics, has no text, or is not JSON.
Responses ==
    {[kind |-> "error", n |-> 0], [kind |-> "noText", n |-> 0],
     [kind |-> "badJSON", n |-> 0]}
    \cup {[kind |-> "json", n |-> n] : n \in 0..MaxDiagnostics}

\* What Review returns: (result, nil) or (nil, err), by the kind of error.
ReviewReturn(kind, n) == [kind |-> kind, n |-> n]

\* One entry of rvLog.
ReviewEvent(ev, n) == [ev |-> ev, n |-> n]

\* The backoff kept as it is after a sleep.
ConstantBackoff(b) == b

\* backoff *= 2.
NextBackoff(b) == b * 2

\* Where `continue` leads: the next iteration, or past the loop to the
\* final return.
Continue(n) ==
    IF n < maxRetries THEN <<"request", ReviewReturn("none", 0)>>
    ELSE <<"returned", ReviewReturn("exhausted", 0)>>

\* Review up to the loop: the factory builds the client.
ReviewStart ==
    /\ rvpc = "idle"
    /\ \E ok \in BOOLEAN :
          IF ok THEN rvpc' = "request" /\ rvRet' = rvRet
          ELSE rvpc' = "returned" /\ rvRet' = ReviewReturn("clientError", 0)
    /\ UNCHANGED <<attempt, backoff, waited, rvCtxDone, rvLog>>
    /\ UNCHANGED <<engineVars, pipeVars, poolVars, gateVars, hookVars, fnVars, stashVars>>

\* The loop body begins: GenerateContent is called with a request context.
ReviewRequest ==
    /\ rvpc = "request"
    /\ rvpc' = "inflight"
    /\ rvLog' = Append(rvLog, ReviewEvent("request", attempt + 1))
    /\ UNCHANGED <<attempt, backoff, waited, rvCtxDone, rvRet>>
    /\ UNCHANGED <<engineVars, pipeVars, poolVars, gateVars, hookVars, fnVars, stashVars>>

\* GenerateContent returns: either the response is decoded and returned or
\* the error is kept for the retry and the select is next.
ReviewResponse ==
    /\ rvpc = "inflight"
    /\ \E r \in Responses :
          /\ rvLog' = Append(rvLog, ReviewEvent(IF r.kind = "error" THEN "requestFailed"
                                                ELSE "requestOk", attempt + 1))
          /\ IF r.kind = "error" THEN rvpc' = "select" /\ rvRet' = rvRet
             ELSE /\ rvpc' = "returned"
                  /\ rvRet' = IF r.kind = "noText" THEN ReviewReturn("extractError", 0)
                               ELSE IF r.kind = "badJSON" THEN ReviewReturn("parseError", 0)
                               ELSE ReviewReturn("result", r.n)
    /\ attempt' = attempt + 1
    /\ UNCHANGED <<backoff, waited, rvCtxDone>>
    /\ UNCHANGED <<engineVars, pipeVars, poolVars, gateVars, hookVars, fnVars, stashVars>>

\* The select is reached: a context already done is the only ready case
\* (the timer was just set to a positive backoff); otherwise it parks.
ReviewSelect ==
    /\ rvpc = "select"
    /\ IF rvCtxDone
       THEN rvpc' = "returned" /\ rvRet' = ReviewReturn("cancelled", 0)
       ELSE rvpc' = "sleep" /\ rvRet' = rvRet
    /\ waited' = 0
    /\ UNCHANGED <<attempt, backoff, rvCtxDone, rvLog>>
    /\ UNCHANGED <<engineVars, pipeVars, poolVars, gateVars, hookVars, fnVars, stashVars>>

\* A second passes while the select is parked.
ReviewTick ==
    /\ rvpc = "sleep"
    /\ waited < backoff
    /\ waited' = waited + 1
    /\ UNCHANGED <<rvpc, attempt, backoff, rvCtxDone, rvRet, rvLog>>
    /\ UNCHANGED <<engineVars, pipeVars, poolVars, gateVars, hookVars, fnVars, stashVars>>

\* time.After(backoff) fires while the select is parked: the backoff is
\* doubled and the loop continues.
ReviewTimer ==
    /\ rvpc = "sleep"
    /\ waited = backoff
    /\ rvLog' = Append(rvLog, ReviewEvent("slept", waited))
    /\ backoff' = NextBackoff(backoff)
    /\ rvpc' = Continue(attempt)[1]
    /\ rvRet' = Continue(attempt)[2]
    /\ UNCHANGED <<attempt, waited, rvCtxDone>>
    /\ UNCHANGED <<engineVars, pipeVars, poolVars, gateVars, hookVars, fnVars, stashVars>>

\* The caller cancels the context; a parked select wakes on ctx.Done() and
\* Review returns the cancellation.
ReviewCtxCancel ==
    /\ rvpc \notin {"idle", "returned"}
    /\ ~rvCtxDone
    /\ rvCtxDone' = TRUE
    /\ rvLog' = Append(rvLog, ReviewEvent(IF rvpc = "sleep" THEN "cancelInSleep"
                                          ELSE "cancel", 0))
    /\ IF rvpc = "sleep"
       THEN rvpc' = "returned" /\ rvRet' = ReviewReturn("cancelled", 0)
       ELSE UNCHANGED <<rvpc, rvRet>>
    /\ UNCHANGED <<attempt, backoff, waited>>
    /\ UNCHANGED <<engineVars, pipeVars, poolVars, gateVars, hookVars, fnVars, stashVars>>

\* Review not called.
IdleReview ==
    /\ rvpc = "idle"
    /\ attempt = 0
    /\ backoff = initialBackoff
    /\ waited = 0
    /\ rvCtxDone = FALSE
    /\ rvRet = ReviewReturn("none", 0)
    /\ rvLog = <<>>

-----------------------------------------------------------------------------
\* git.ExecService.Stash / StashPop on a repository with a stash stack

\* Most entries on the stash stack before gatekeeper touches it; most
\* Stash / StashPop calls made on one repository.
MaxStack == 2
MaxStashCalls == 2

stashMessage == "gatekeeper-stash"

\* What a stash entry or the working tree holds relative to the index.
Changes == [unstaged : BOOLEAN, untracked : BOOLEAN]
NoChanges == [unstaged |-> FALSE, untracked |-> FALSE]

\* A stash entry: its message and the changes it saved.
StashEntries == [msg : {stashMessage, "WIP"}, saved : Changes \ {NoChanges}]

\* The line of `git stash list` for the entry at position i (top is 1):
\* the reference before the first ":" and the words after it.
StashListLine(stack, i) == [ref |-> i, text |-> <<"On main", ":", stack[i].msg>>]

\* stack without its i-th entry.
DropEntry(stack, i) == SubSeq(stack, 1, i - 1) \o SubSeq(stack, i + 1, Len(stack))

\* `git stash pop` applying saved changes onto the tree.
Apply(t, saved) ==
    [unstaged |-> t.unstaged \/ saved.unstaged, untracked |-> t.untracked \/ saved.untracked]

\* `git diff --quiet` returns an error: on differences (exit 1) and when
\* it fails for any other reason.
DiffQuietErr(t, diffFails) == t.unstaged \/ diffFails

\* `git stash push --keep-index --include-untracked -m gatekeeper-stash`
\* exiting 0: an entry is pushed when there is something to save, and
\* nothing happens ("No local changes to save") otherwise.
StashPush(r) ==
    IF r.tree = NoChanges THEN r
    ELSE [tree |-> NoChanges,
          stack |-> <<[msg |-> stashMessage, saved |-> r.tree]>> \o r.stack]

\* ExecService.Stash; the last three arguments are whether `git diff`
\* fails for a reason other than differences and whether `git ls-files` and
\* `git stash push` succeed.  Yields <<stashed, err, repo'>>.
ExecStash(r, diffFails, lsOk, pushOk) ==
    IF ~DiffQuietErr(r.tree, diffFails) /\ ~lsOk THEN <<FALSE, TRUE, r>>
    ELSE IF ~DiffQuietErr(r.tree, diffFails) /\ ~r.tree.untracked THEN <<FALSE, FALSE, r>>
    ELSE IF ~pushOk THEN <<FALSE, TRUE, r>>
    ELSE <<TRUE, FALSE, StashPush(r)>>

\* The lines of `git stash list` that contain the stash message.
MarkerLines(stack) ==
    {i \in 1..Len(stack) : Contains(StashListLine(stack, i).text, stashMessage)}

\* ExecService.StashPop: the first line of the list containing the message
\* names the entry to pop.  Yields <<err, repo'>>.
ExecStashPop(r, listOk, popOk) ==
    IF ~listOk THEN <<TRUE, r>>
    ELSE IF MarkerLines(r.stack) = {} THEN <<FALSE, r>>
    ELSE LET first == CHOOSE k \in MarkerLines(r.stack) :
                         \A j \in MarkerLines(r.stack) : k <= j
             i == StashListLine(r.stack, first).ref
         IN IF ~popOk THEN <<TRUE, r>>
            ELSE <<FALSE, [tree |-> Apply(r.tree, r.stack[i].saved),
                           stack |-> DropEntry(r.stack, i)]>>

\* One entry of stashLog; gitOk is whether every git command succeeded.
StashCall(op, before, stashedV, err, after, gitOk) ==
    [op |-> op, before |-> before, stashed |-> stashedV, err |-> err,
     after |-> after, gitOk |-> gitOk]

\* Stash is called on the repository.
CallStash ==
    /\ Len(stashLog) < MaxStashCalls
    /\ \E diffFails \in BOOLEAN, lsOk \in BOOLEAN, pushOk \in BOOLEAN :
          LET out == ExecStash(repo, diffFails, lsOk, pushOk) IN
            /\ repo' = out[3]
            /\ stashLog' = Append(stashLog,
                   StashCall("Stash", repo, out[1], out[2], out[3],
                             ~diffFails /\ lsOk /\ pushOk))
    /\ UNCHANGED <<engineVars, pipeVars, poolVars, gateVars, hookVars, fnVars, reviewVars>>

\* StashPop is called on the repository.
CallStashPop ==
    /\ Len(stashLog) < MaxStashCalls
    /\ \E listOk \in BOOLEAN, popOk \in BOOLEAN :
          LET out == ExecStashPop(repo, listOk, popOk) IN
            /\ repo' = out[2]
            /\ stashLog' = Append(stashLog,
                   StashCall("StashPop", repo, FALSE, out[1], out[2], listOk /\ popOk))
    /\ UNCHANGED <<engineVars, pipeVars, poolVars, gateVars, hookVars, fnVars, reviewVars>>

\* Pipeline.Execute's steps 4 and its exits, on a repository that may hold
\* stash entries from earlier runs.

\* `if stashed` taken whatever Stash returned.
RegistersPopAlways(stashedV) == TRUE

\* `if stashed { ... }`: the handler and the deferred pop are set up.
RegistersPop(stashedV) == stashedV

\* 4. Stash; on an error Execute returns it; otherwise, when stashed, the
\* signal handler goroutine starts and the pop is deferred.
RunStash ==
    /\ Alive /\ ppc = "stash"
    /\ \E diffFails \in BOOLEAN, lsOk \in BOOLEAN, pushOk \in BOOLEAN :
          LET out == ExecStash(repo, diffFails, lsOk, pushOk) IN
            /\ repo' = out[3]
            /\ stashLog' = Append(stashLog,
                   StashCall("Stash", repo, out[1], out[2], out[3],
                             ~diffFails /\ lsOk /\ pushOk))
            /\ stashed' = out[1]
            /\ IF out[2]
               THEN ppc' = "returned" /\ ret' = "error" /\ UNCHANGED <<notify, hpc>>
               ELSE /\ ppc' = "body" /\ ret' = ret
                    /\ IF RegistersPop(out[1])
                       THEN notify' = TRUE /\ hpc' = "wait"
                       ELSE UNCHANGED <<notify, hpc>>
    /\ UNCHANGED <<dryRun, sigCh, sigCount, proc, exitCode, callLog, tree,
                   stashEntry, entryTree>>
    /\ UNCHANGED <<engineVars, poolVars, gateVars, hookVars, fnVars, reviewVars>>

\* 5-10 come to a return statement (or a panic); the deferred function, if
\* one was registered, stops the signal delivery and pops the stash.
RunReturn ==
    /\ Alive /\ ppc = "body"
    /\ ppc' = "returned"
    /\ \E r \in {"nil", "error"} : ret' = r
    /\ IF hpc # "none"
       THEN /\ notify' = FALSE
            /\ \E listOk \in BOOLEAN, popOk \in BOOLEAN :
                  LET out == ExecStashPop(repo, listOk, popOk) IN
                    /\ repo' = out[2]
                    /\ stashLog' = Append(stashLog,
                           StashCall("StashPop", repo, FALSE, out[1], out[2],
                                     listOk /\ popOk))
       ELSE UNCHANGED <<notify, repo, stashLog>>
    /\ UNCHANGED <<dryRun, stashed, sigCh, hpc, sigCount, proc, exitCode, callLog,
                   tree, stashEntry, entryTree>>
    /\ UNCHANGED <<engineVars, poolVars, gateVars, hookVars, fnVars, reviewVars>>

\* SIGINT or SIGTERM arrives: queued for the handler goroutine when
\* signal.Notify is in force, otherwise the process is killed.
RunSignal ==
    /\ Alive /\ sigCount < MaxSignals
    /\ ppc \in {"stash", "body", "returned"}
    /\ sigCount' = sigCount + 1
    /\ IF notify
       THEN sigCh' = 1 /\ UNCHANGED <<proc, exitCode>>
       ELSE proc' = "killed" /\ exitCode' = 130 /\ UNCHANGED sigCh
    /\ UNCHANGED <<dryRun, ppc, ret, stashed, notify, hpc, callLog, tree,
                   stashEntry, entryTree>>
    /\ UNCHANGED <<engineVars, poolVars, gateVars, libVars>>

\* The handler goroutine: receive, StashPop (error dropped), os.Exit(1).
RunHandler ==
    /\ Alive /\ hpc = "wait" /\ sigCh > 0
    /\ sigCh' = sigCh - 1
    /\ hpc' = "exit"
    /\ \E listOk \in BOOLEAN, popOk \in BOOLEAN :
          LET out == ExecStashPop(repo, listOk, popOk) IN
            /\ repo' = out[2]
            /\ stashLog' = Append(stashLog,
                   StashCall("StashPop", repo, FALSE, out[1], out[2], listOk /\ popOk))
    /\ proc' = "exited"
    /\ exitCode' = 1
    /\ UNCHANGED <<dryRun, ppc, ret, stashed, notify, sigCount, callLog, tree,
                   stashEntry, entryTree>>
    /\ UNCHANGED <<engineVars, poolVars, gateVars, hookVars, fnVars, reviewVars>>

\* No call made on a repository without changes or stash entries.
IdleStash ==
    /\ repo = [tree |-> NoChanges, stack |-> <<>>]
    /\ stashLog = <<>>

IdleLib ==
    /\ IdleHook
    /\ IdleFn
    /\ IdleReview
    /\ IdleStash

-----------------------------------------------------------------------------
\* The specifications

Init ==
    /\ gates \in SeqsUpTo([blocking : BOOLEAN, writable : BOOLEAN, kind : {"container"}],
                          MaxGates)
    /\ InitEngineVars
    /\ gateNames = <<>>
    /\ progress = TRUE
    /\ callerCancelled = FALSE
    /\ dryRun = FALSE
    /\ ppc = "loadConfig"
    /\ ret = "none"
    /\ stashed = FALSE
    /\ notify = FALSE
    /\ sigCh = 0
    /\ hpc = "none"
    /\ sigCount = 0
    /\ proc = "running"
    /\ exitCode = 0
    /\ callLog = <<>>
    /\ tree \in [unstaged : BOOLEAN, untracked : BOOLEAN, gateFiles : {FALSE}]
    /\ stashEntry = NoStash
    /\ entryTree = tree
    /\ IdlePool
    /\ IdleGate
    /\ IdleLib

Next ==
    \/ LoadConfig
    \/ GlobalConfig
    \/ CheckDocker
    \/ Stash
    \/ InstallHandler
    \/ StagedFiles
    \/ FilterGates
    \/ CreateAll
    \/ RunAll
    \/ EngineStep
    \/ \E i \in 1..Len(gates) : GateWrite(i)
    \/ RunAllReturn
    \/ CleanWritable
    \/ FormatAndReturn
    \/ Panic
    \/ DeferStop
    \/ DeferPop
    \/ ProcessExit
    \/ Signal
    \/ HandlerRecv
    \/ HandlerPop
    \/ HandlerExit

Spec == Init /\ [][Next]_vars

InitEngine ==
    /\ gates \in SeqsUpTo([blocking : BOOLEAN, writable : {FALSE}, kind : GateKinds], MaxGates)
    /\ InitEngineVars
    /\ gateNames = <<>>
    /\ progress = FALSE
    /\ callerCancelled \in BOOLEAN
    /\ dryRun = FALSE
    /\ ppc = "direct"
    /\ ret = "none"
    /\ stashed = FALSE
    /\ notify = FALSE
    /\ sigCh = 0
    /\ hpc = "none"
    /\ sigCount = 0
    /\ proc = "running"
    /\ exitCode = 0
    /\ callLog = <<>>
    /\ tree = CleanTree
    /\ stashEntry = NoStash
    /\ entryTree = CleanTree
    /\ IdlePool
    /\ IdleGate
    /\ IdleLib

NextEngine ==
    \/ DirectRunAll
    \/ CallerCancel
    \/ EngineStep

SpecEngine == InitEngine /\ [][NextEngine]_vars

\* SpecEngine with the scheduler running every goroutine that can take a
\* step and every Execute returning; the caller's cancellation may come at
\* any moment or never.
SpecEngineLive ==
    /\ InitEngine
    /\ [][NextEngine]_vars
    /\ WF_vars(DirectRunAll)
    /\ WF_vars(EngineStep)

\* RunAll on an engine built by NewEngineWithProgress, called directly with
\* any gateNames argument.
InitProgress ==
    /\ gates \in SeqsUpTo([blocking : BOOLEAN, writable : {FALSE}, kind : GateKinds], MaxGates)
    /\ InitEngineVars
    /\ gateNames \in SeqsUpTo(1..MaxGates, MaxGates)
    /\ progress = TRUE
    /\ callerCancelled \in BOOLEAN
    /\ dryRun = FALSE
    /\ ppc = "direct"
    /\ ret = "none"
    /\ stashed = FALSE
    /\ notify = FALSE
    /\ sigCh = 0
    /\ hpc = "none"
    /\ sigCount = 0
    /\ proc = "running"
    /\ exitCode = 0
    /\ callLog = <<>>
    /\ tree = CleanTree
    /\ stashEntry = NoStash
    /\ entryTree = CleanTree
    /\ IdlePool
    /\ IdleGate
    /\ IdleLib

SpecProgress == InitProgress /\ [][NextEngine]_vars

\* Neither RunAll nor Pipeline.Execute under way.
IdleEngineAndPipeline ==
    /\ gates = <<>>
    /\ failFast = FALSE
    /\ InitEngineVars
    /\ gateNames = <<>>
    /\ progress = FALSE
    /\ callerCancelled = FALSE
    /\ dryRun = FALSE
    /\ ppc = "none"
    /\ ret = "none"
    /\ stashed = FALSE
    /\ notify = FALSE
    /\ sigCh = 0
    /\ hpc = "none"
    /\ sigCount = 0
    /\ proc = "running"
    /\ exitCode = 0
    /\ callLog = <<>>
    /\ tree = CleanTree
    /\ stashEntry = NoStash
    /\ entryTree = CleanTree

InitPool ==
    /\ IdleEngineAndPipeline
    /\ IdlePool
    /\ IdleGate
    /\ IdleLib

\* The pool over successive runs and cleanups with the clock held still.
NextPool ==
    \/ RunPipelineStart
    \/ \E t \in Triples : GetOrCreate(t.image, t.project, t.writable)
    \/ RunPipelineEnd
    \/ CleanupAll

SpecPool == InitPool /\ [][NextPool]_vars

\* The same with time passing, commands run in the containers and
\* CleanupStale called between runs.
NextPoolTTL ==
    \/ RunPipelineStart
    \/ \E t \in Triples : GetOrCreate(t.image, t.project, t.writable)
    \/ \E id \in 1..MaxContainers : ExecRun(id)
    \/ RunPipelineEnd
    \/ \E ttl \in 1..MaxTTL : CleanupStale(ttl)
    \/ CleanupAll
    \/ Tick

SpecPoolTTL == InitPool /\ [][NextPoolTTL]_vars

InitGate ==
    /\ IdleEngineAndPipeline
    /\ IdlePool
    /\ IdleLib
    /\ gcfg \in [kind : GateImpls, blocking : BOOLEAN, onError : OnErrorPolicies]
    /\ gpc = "begin"
    /\ gres = ZeroResult
    /\ gret = NoReturn
    /\ gslot = NilSlot
    /\ grun = EmptyRunResult
    /\ xpc = "idle"
    /\ xret = RunOk
    /\ streamDone = FALSE
    /\ gctxDone = FALSE
    /\ woke = "none"
    /\ gfail = "none"
    /\ firstFired = "none"
    /\ llmTrace = <<>>

NextGate ==
    \/ GateBegin
    \/ GateAcquire
    \/ ExecCreate
    \/ ExecAttach
    \/ StreamComplete
    \/ CtxCancel
    \/ SelectPoll
    \/ \E c \in {"output", "ctx", "timer"} : SelectWake(c)
    \/ ExecInspect
    \/ GateRunReturn
    \/ GateParse
    \/ LlmStagedDiff
    \/ LlmFilterBySize
    \/ LlmReview
    \/ GateCollect
    \/ GateAggregate

SpecGate == InitGate /\ [][NextGate]_vars

\* The hook operations on a repository with any pre-commit hook.
InitHooks ==
    /\ IdleEngineAndPipeline
    /\ IdlePool
    /\ IdleGate
    /\ hook \in HookFiles
    /\ hookLog = <<>>
    /\ IdleFn
    /\ IdleReview
    /\ IdleStash

NextHooks ==
    \/ CallInstallHook
    \/ CallRemoveHook

SpecHooks == InitHooks /\ [][NextHooks]_vars

\* The parsers on any tool output.
InitParse ==
    /\ IdleEngineAndPipeline
    /\ IdlePool
    /\ IdleGate
    /\ IdleHook
    /\ fnArg \in [stdout : SeqsUpTo(OutputBytes, MaxStdout),
                  stderr : SeqsUpTo({" ", "m"}, MaxStderr),
                  exitCode : ExitCodes]
    /\ fnRes = NotCalled
    /\ IdleReview
    /\ IdleStash

NextParse ==
    \/ ParseGeneric
    \/ ParseSarif
    \/ ParseGoTest

SpecParse == InitParse /\ [][NextParse]_vars

\* ValidateLineNumbers on any diagnostics and diffs.
InitValidate ==
    /\ IdleEngineAndPipeline
    /\ IdlePool
    /\ IdleGate
    /\ IdleHook
    /\ fnArg \in [errors : SeqsUpTo(Diagnostics, MaxErrors),
                  diffs : SeqsUpTo(FileDiffs, MaxDiffs)]
    /\ fnRes = NotCalled
    /\ IdleReview
    /\ IdleStash

NextValidate ==
    \/ Validate

SpecValidate == InitValidate /\ [][NextValidate]_vars

\* FilterGates on any gates and staged files.
InitFilter ==
    /\ IdleEngineAndPipeline
    /\ IdlePool
    /\ IdleGate
    /\ IdleHook
    /\ fnArg \in [gates : SeqsUpTo(FilterCfgs, MaxGates),
                  files : SeqsUpTo(StagedPaths, MaxStaged)]
    /\ fnRes = NotCalled
    /\ IdleReview
    /\ IdleStash

NextFilter ==
    \/ CallShouldRun
    \/ ApplyFilterGates
    \/ ReapplyFilterGates

SpecFilter == InitFilter /\ [][NextFilter]_vars

\* One GetOrCreate or CleanupStale call, the daemon answering anyhow.
InitPoolCalls ==
    /\ IdleEngineAndPipeline
    /\ IdlePool
    /\ IdleGate
    /\ IdleHook
    /\ fnArg \in CleanupStaleArgs \cup GetOrCreateArgs
    /\ fnRes = NotCalled
    /\ IdleReview
    /\ IdleStash

NextPoolCalls ==
    \/ CallCleanupStale
    \/ CallGetOrCreate

SpecPoolCalls == InitPoolCalls /\ [][NextPoolCalls]_vars

\* One Review call, its context cancelled at any moment (or beforehand).
InitReview ==
    /\ IdleEngineAndPipeline
    /\ IdlePool
    /\ IdleGate
    /\ IdleHook
    /\ IdleFn
    /\ rvpc = "idle"
    /\ attempt = 0
    /\ backoff = initialBackoff
    /\ waited = 0
    /\ rvCtxDone \in BOOLEAN
    /\ rvRet = ReviewReturn("none", 0)
    /\ rvLog = <<>>
    /\ IdleStash

NextReview ==
    \/ ReviewStart
    \/ ReviewRequest
    \/ ReviewResponse
    \/ ReviewSelect
    \/ ReviewTick
    \/ ReviewTimer
    \/ ReviewCtxCancel

SpecReview == InitReview /\ [][NextReview]_vars

\* Stash and StashPop called in any order on any repository.
InitStash ==
    /\ IdleEngineAndPipeline
    /\ IdlePool
    /\ IdleGate
    /\ IdleHook
    /\ IdleFn
    /\ IdleReview
    /\ repo \in [tree : Changes, stack : SeqsUpTo(StashEntries, MaxStack)]
    /\ stashLog = <<>>

NextStash ==
    \/ CallStash
    \/ CallStashPop

SpecStash == InitStash /\ [][NextStash]_vars

\* Pipeline.Execute about to stash, on any repository.
InitStashRun ==
    /\ gates = <<>>
    /\ failFast = FALSE
    /\ InitEngineVars
    /\ gateNames = <<>>
    /\ progress = FALSE
    /\ callerCancelled = FALSE
    /\ dryRun = FALSE
    /\ ppc = "stash"
    /\ ret = "none"
    /\ stashed = FALSE
    /\ notify = FALSE
    /\ sigCh = 0
    /\ hpc = "none"
    /\ sigCount = 0
    /\ proc = "running"
    /\ exitCode = 0
    /\ callLog = <<>>
    /\ tree = CleanTree
    /\ stashEntry = NoStash
    /\ entryTree = CleanTree
    /\ IdlePool
    /\ IdleGate
    /\ IdleHook
    /\ IdleFn
    /\ IdleReview
    /\ repo \in [tree : Changes, stack : SeqsUpTo(StashEntries, MaxStack)]
    /\ stashLog = <<>>

NextStashRun ==
    \/ RunStash
    \/ RunReturn
    \/ RunSignal
    \/ RunHandler

SpecStashRun == InitStashRun /\ [][NextStashRun]_vars

-----------------------------------------------------------------------------
\* Properties of Engine.RunAll (SpecEngine)

Tasks == 1..Len(gates)

\* Gate i's Execute returned a result with blocking = true and passed = false.
BlockingFailure(out) == out.hasResult /\ out.result.blocking /\ ~out.result.passed

\* Gate i's goroutine returned at the pre-start check: Execute never ran.
NeverExecuted(i) == tpc[i] = "done" /\ tres[i] = NoReturn

\* C1: for every RunResult that RunAll returns, passed is true if and only
\* if every gate result in it is non-blocking or passed without a system
\* error.
C1_PassedIffNoBlockingFailure ==
    epc = "returned" =>
        (runResult.passed <=>
            \A k \in 1..Len(runResult.gates) :
                \/ ~runResult.gates[k].blocking
                \/ (runResult.gates[k].passed /\ ~runResult.gates[k].sysErr))

\* C1 witness: a returned run of two gates that failed only because a
\* blocking gate reported passed together with a system error.
C1_Witness ==
    /\ epc = "returned"
    /\ Len(runResult.gates) = 2
    /\ ~runResult.passed
    /\ \E k \in 1..2 : /\ runResult.gates[k].blocking
                       /\ runResult.gates[k].passed
                       /\ runResult.gates[k].sysErr
    /\ \E k \in 1..2 : ~runResult.gates[k].blocking /\ ~runResult.gates[k].passed

\* The part of C8 on when the engine cancels: the fail-fast cancel has been
\* called only if fail_fast is set and some gate returned a blocking failed
\* result, and it has been called once such a gate's goroutine is done.
C8_CancelIffBlockingFailure ==
    /\ engineCancelled =>
          (failFast /\ \E i \in DOMAIN tres : BlockingFailure(tres[i]))
    /\ \A i \in DOMAIN tres :
          (failFast /\ tpc[i] = "done" /\ BlockingFailure(tres[i])) => engineCancelled

\* No gate returned a blocking failed result, or fail_fast is off.
NoFailFastCause == ~failFast \/ \A i \in DOMAIN tres : ~BlockingFailure(tres[i])

\* Every gate ran to completion and appears in RunResult.gates.
AllGatesReported ==
    /\ \A i \in DOMAIN tres : tres[i] # NoReturn /\ collected[i].set
    /\ Len(runResult.gates) = Len(gates)

\* C8 as stated: the engine cancels iff fail_fast and a blocking failed
\* result; with fail_fast off, or only non-blocking failures, the engine
\* cancels no gate and every gate runs to completion and is reported.
C8_Original ==
    /\ C8_CancelIffBlockingFailure
    /\ (epc = "returned" /\ NoFailFastCause) => (~engineCancelled /\ AllGatesReported)

\* C8 amended: as C8, but every gate runs to completion and is reported only
\* provided the caller has not cancelled the context it passed to RunAll.
C8_Amended ==
    /\ C8_CancelIffBlockingFailure
    /\ (epc = "returned" /\ NoFailFastCause) => ~engineCancelled
    /\ (epc = "returned" /\ NoFailFastCause /\ ~callerCancelled) => AllGatesReported

\* C8 witness: a fail-fast run of two gates returned in which a non-blocking
\* gate failed and nothing was cancelled.
C8_Witness ==
    /\ epc = "returned" /\ failFast /\ ~callerCancelled /\ ~engineCancelled
    /\ Len(gates) = 2
    /\ \E i \in DOMAIN tres : /\ tres[i].hasResult
                              /\ ~tres[i].result.passed
                              /\ ~tres[i].result.blocking
    /\ AllGatesReported

\* C9: RunAll never returns passed = true for a run in which some gate was
\* omitted without having been executed.
C9_OmittedGateNeverPassed ==
    (epc = "returned" /\ \E i \in DOMAIN tpc : NeverExecuted(i)) => ~runResult.passed

\* C10: with fail_fast, the gates that were still executing when a blocking
\* gate's failure cancelled the context are omitted from RunResult.gates.
C10_CancelledGatesOmitted ==
    epc = "returned" => \A i \in inflightAtCancel : ~collected[i].set

-----------------------------------------------------------------------------
\* Properties of Pipeline.Execute (Spec)

\* The calls of op made so far, as positions of callLog.
CallsOf(op) == {k \in 1..Len(callLog) : callLog[k].op = op}

\* Some StashPop call returned an error.
PopFailed == \E k \in CallsOf("StashPop") : callLog[k].err

\* Gate i is inside Execute.
Executing(i) == epc = "collect" /\ tpc[i] = "exec"

\* Gate i's Execute has been called.
WasExecuted(i) == tpc[i] \in {"exec", "sent"} \/ (tpc[i] = "done" /\ tres[i] # NoReturn)

\* This step is a call of StashPop.
PopStep ==
    /\ Len(callLog') = Len(callLog) + 1
    /\ callLog'[Len(callLog')].op = "StashPop"

\* C2: whenever Stash returned stashed = true, StashPop has been invoked by
\* the time the process has terminated, whatever ended it.
C2_PopBeforeTermination ==
    (proc # "running" /\ stashed) => CallsOf("StashPop") # {}

\* C3: when no StashPop call failed, the working tree at process exit equals
\* the working tree at entry.
C3_TreeRestored ==
    (proc # "running" /\ ~PopFailed) => tree = entryTree

\* C4: StashPop is executed at most once in a pipeline run.
C4_PopAtMostOnce == Cardinality(CallsOf("StashPop")) <= 1

\* C5: when the signal goroutine runs StashPop, the execution context has
\* been cancelled and no gate is still executing.
C5_PopAfterGatesDrained ==
    [][(hpc = "pop" /\ hpc' = "exit") =>
          (epc = "collect" => (CtxDone /\ \A i \in DOMAIN tpc : ~Executing(i)))]_vars

\* A successful CheckDocker precedes position k of callLog.
DockerOkBefore(k) == \E j \in 1..(k - 1) : callLog[j] = Call("CheckDocker", FALSE)

\* C6: Stash, StashPop and CleanWritableFiles are only called after
\* CheckDocker succeeded; when config loading or the Docker check fails,
\* Execute returns the error having called none of them.
C6_StashOnlyAfterDockerCheck ==
    /\ \A k \in 1..Len(callLog) :
          callLog[k].op \in {"Stash", "StashPop", "CleanWritableFiles"} => DockerOkBefore(k)
    /\ (ppc = "returned" /\ ~DockerOkBefore(Len(callLog) + 1)) =>
          (ret = "error" /\ \A k \in 1..Len(callLog) : callLog[k].op = "CheckDocker")

\* C6 witness: Execute returned the Docker check's failure.
C6_Witness ==
    /\ ppc = "returned" /\ ret = "error"
    /\ callLog = <<Call("CheckDocker", TRUE)>>
    /\ tree = entryTree /\ tree.unstaged

\* C7: whenever StashPop is called after a writable gate was executed, all
\* gate tasks have finished and CleanWritableFiles has been called.
C7_CleanBeforePop ==
    [][(PopStep /\ \E i \in DOMAIN tpc : gates[i].writable /\ WasExecuted(i)) =>
          (/\ \A i \in DOMAIN tpc : tpc[i] = "done"
           /\ CallsOf("CleanWritableFiles") # {})]_vars

-----------------------------------------------------------------------------
\* Properties of one gate's run (SpecGate)

\* Execute has returned.
GateReturned == gpc \in {"returned", "collected", "aggregated"}

\* C11: a system error in a gate whose on_error policy is warn does not
\* fail the run: only under on_error = block does a system error set
\* RunResult.passed to false.
C11_WarnSystemErrorDoesNotFailRun ==
    (gpc = "aggregated" /\ gslot.set /\ gslot.r.sysErr /\ gcfg.onError = "warn")
        => grun.passed

-----------------------------------------------------------------------------
\* Properties of the pool (SpecPool, SpecPoolTTL)

TripleKey(t) == computePoolKey(t.image, t.project, t.writable)

\* No cleanup has removed a container kept under the triple's key.
NoEviction(t) == \A e \in evictions : e.key # TripleKey(t)

\* The ids GetOrCreate has returned for the triple.
ReturnedFor(t) == {r.id : r \in {q \in returned : q.triple = t}}

\* C12 as stated: for GetOrCreate calls with an identical triple and no
\* intervening eviction, every call returns the same sandbox id and at most
\* one sandbox is ever created for the triple.
C12_Original ==
    \A t \in Triples :
        NoEviction(t) =>
            /\ Cardinality(ReturnedFor(t)) <= 1
            /\ Cardinality({c \in created : c.triple = t}) <= 1

\* C12 amended: for GetOrCreate calls with an identical triple and no
\* intervening eviction, every call that succeeds returns the same sandbox
\* id and at most one sandbox created for the triple is ever started (one
\* that fails to start is discarded and a later call creates another).
C12_Amended ==
    \A t \in Triples :
        NoEviction(t) =>
            /\ Cardinality(ReturnedFor(t)) <= 1
            /\ Cardinality({c \in created : c.triple = t /\ c.started}) <= 1

\* C12 witness: with no eviction, the sandbox created and started for a
\* triple was found again by a later call with the same triple, after an
\* earlier container for that triple had failed to start.
C12_Witness ==
    \E r \in reused :
        /\ NoEviction(r.triple)
        /\ [id |-> r.id, triple |-> r.triple, started |-> TRUE] \in created
        /\ \E c \in created : c.triple = r.triple /\ ~c.started

\* C13: two GetOrCreate calls whose triples differ in any component never
\* receive the same sandbox.
C13_DifferentTriplesDifferentSandboxes ==
    \A r1, r2 \in returned : r1.triple # r2.triple => r1.id # r2.id

\* C14: last_used is updated after every exec in a sandbox, so CleanupStale
\* never removes a sandbox in which a command ran less than ttl ago.
C14_RecentlyUsedNeverEvicted ==
    /\ \A c \in containers :
          lastExec[c.id] # -1 => c.lastUsed >= FormatRFC3339(lastExec[c.id])
    /\ \A e \in evictions :
          (e.by = "stale" /\ e.sinceExec # -1) => e.sinceExec >= e.ttl

\* C15: every run performs lazy TTL eviction: a managed sandbox whose
\* last_used was older than the configured TTL when the run began is gone
\* when the run has ended.
C15_RunEvictsStale ==
    inv = "ended" => \A c \in containers : c.id \notin staleAtStart

-----------------------------------------------------------------------------
\* Properties of Pipeline.Execute's return value (Spec)

\* C16: once the gates have run, Execute with DryRun = true returns nil
\* whatever the RunResult; with DryRun = false it returns ErrGatesFailed if
\* and only if RunResult.passed is false, and nil when it is true.
C16_ExitValueAfterGates ==
    (epc = "returned" /\ ppc \in {"deferStop", "deferPop", "returned"} /\ ret # "panic")
        => /\ dryRun => ret = "nil"
           /\ ~dryRun => /\ ret = "ErrGatesFailed" <=> ~runResult.passed
                         /\ runResult.passed => ret = "nil"

\* C16 witness: a dry run whose gates failed returned nil.
C16_Witness ==
    /\ ppc = "returned" /\ epc = "returned"
    /\ dryRun /\ ~runResult.passed /\ ret = "nil"

-----------------------------------------------------------------------------
\* Properties of the gate results (SpecGate)

\* C17: every GateResult, from ContainerGate.Execute, LLMGate.Execute, a
\* skipped gate or the engine's placeholder for a gate that returned an
\* error, has passed = false when its system_error is non-empty.
C17_SystemErrorImpliesNotPassed ==
    /\ (GateReturned /\ gret.hasResult) => (gret.result.sysErr => ~gret.result.passed)
    /\ gslot.set => (gslot.r.sysErr => ~gslot.r.passed)

\* C17 witness: an LLM gate whose review failed was collected with a system
\* error and passed = false.
C17_Witness ==
    /\ gpc = "collected" /\ gcfg.kind = "llm" /\ gfail = "review"
    /\ gslot.set /\ gslot.r.sysErr /\ ~gslot.r.passed

\* C18: when the gate's timeout elapses before the command's output stream
\* completes, the gate's result has a non-empty system_error and no
\* diagnostics.
C18_TimeoutIsSystemError ==
    (GateReturned /\ woke = "timer")
        => /\ gret.hasResult
           /\ gret.result.sysErr
           /\ gret.result.errors = 0
           /\ ~gret.result.passed

\* C18 witness: Run was woken by the timer while the output was still
\* incomplete, and the gate's result was collected with a system error.
C18_Witness ==
    /\ gpc = "collected" /\ woke = "timer" /\ ~streamDone
    /\ gslot.set /\ gslot.r.sysErr /\ gslot.r.errors = 0

\* C19: ContainerGate.Execute and LLMGate.Execute always return a non-nil
\* GateResult and a nil error; a pool, exec, parser, staged-diff or review
\* failure is recorded in the result's system_error.
C19_ExecuteNeverReturnsError ==
    (GateReturned /\ gcfg.kind \in {"container", "llm"})
        => /\ gret.hasResult /\ ~gret.hasErr
           /\ gfail # "none" => gret.result.sysErr

\* C19 witness: a container gate whose parser failed returned a result
\* carrying the system error, and no error.
C19_Witness ==
    /\ gpc = "returned" /\ gcfg.kind = "container" /\ gfail = "parser"
    /\ gret.hasResult /\ ~gret.hasErr /\ gret.result.sysErr

-----------------------------------------------------------------------------
\* Order of the collected results (SpecEngine)

\* The gates whose Execute returned.
Sent == {i \in Tasks : tres[i] # NoReturn}

\* Gate i's place among them, in configuration order.
Rank(i) == Cardinality({j \in Sent : j <= i})

\* C20: RunResult.gates lists the collected results in configuration order,
\* an order-preserving subsequence of the input gate list, whatever the
\* order in which the gates completed.
C20_ResultsInConfigurationOrder ==
    epc = "returned" =>
        /\ Len(runResult.gates) = Cardinality(Sent)
        /\ \A i \in Sent : runResult.gates[Rank(i)] = CollectSlot(tres[i]).r

\* C20 witness: gate 2 completed (and fired fail-fast) while gate 1 was
\* still inside Execute; both results are listed, gate 1's first.
C20_Witness ==
    /\ epc = "returned" /\ 1 \in inflightAtCancel
    /\ Len(runResult.gates) = 2
    /\ runResult.gates[1].name = 1 /\ runResult.gates[2].name = 2

-----------------------------------------------------------------------------
\* Progress events of Engine.RunAll (SpecProgress)

-----------------------------------------------------------------------------
\* The pre-commit hook (SpecHooks)

\* C22: across any sequence of InstallHook and RemoveHook calls, a hook file
\* that lacks the gatekeeper marker is never overwritten or deleted: a call
\* made on such a file returns an error and leaves its content unchanged.
C22_ForeignHookNeverTouched ==
    \A k \in 1..Len(hookLog) :
        LET c == hookLog[k] IN
          (c.before.exists /\ ~Contains(c.before.content, hookMarker))
              => (c.err /\ c.after = c.before)

-----------------------------------------------------------------------------
\* The parsers (SpecParse)

-----------------------------------------------------------------------------
\* ValidateLineNumbers (SpecValidate)

\* The largest line a hunk header of any diff of the file refers to (the
\* header "+start,count" taken to reach start + count); 0 without a header.
MaxHunkLine(diffs, file) ==
    LET ends == {MaxHunkEnd(diffs[i].content, 1, 0) :
                    i \in {j \in 1..Len(diffs) : diffs[j].path = file}}
    IN IF ends = {} THEN 0 ELSE CHOOSE m \in ends : \A n \in ends : n <= m

\* The claim's two conditions on a diagnostic.
InDiffRange(d, diffs) ==
    /\ \E i \in 1..Len(diffs) : diffs[i].path = d.file
    /\ d.line <= MaxHunkLine(diffs, d.file)

\* C24: every diagnostic ValidateLineNumbers returns names a file of diffs
\* and has a line no greater than the largest line a hunk header of that
\* file's diff refers to; the diagnostics failing either condition are
\* dropped and the others are returned unchanged, in order.
C24_ValidatedWithinHunks ==
    fnRes.fn = "ValidateLineNumbers" =>
        fnRes.out = SelectSeq(fnArg.errors, LAMBDA d : InDiffRange(d, fnArg.diffs))

-----------------------------------------------------------------------------
\* GeminiClient.Review (SpecReview)

\* The positions of rvLog holding event ev.
LogIndexes(ev) == {k \in 1..Len(rvLog) : rvLog[k].ev = ev}

\* The k-th sleep of a Review call lasts initialBackoff doubled k-1 times.
RECURSIVE BackoffOf(_)
BackoffOf(k) == IF k = 1 THEN initialBackoff ELSE 2 * BackoffOf(k - 1)

\* C25: Review makes at most three requests; every failed request is
\* followed (when anything follows) by a backoff sleep, the sleeps lasting
\* 1s, 2s, 4s; the first request that succeeds is the last and Review
\* returns on it; when the context is cancelled during a sleep, Review
\* returns a cancellation error and makes no further request.
C25_ThreeAttemptsWithBackoff ==
    LET requests == LogIndexes("request")
        sleeps == SelectSeq(rvLog, LAMBDA e : e.ev = "slept")
    IN /\ Cardinality(requests) <= 3
       /\ \A k \in 1..Len(sleeps) : sleeps[k].n = BackoffOf(k)
       /\ \A k \in LogIndexes("requestFailed") : \A j \in requests :
              j > k => \E m \in LogIndexes("slept") : k < m /\ m < j
       /\ \A k \in LogIndexes("requestOk") :
              /\ \A j \in requests : j <= k
              /\ rvpc = "returned"
              /\ rvRet.kind \in {"result", "extractError", "parseError"}
       /\ \A k \in LogIndexes("cancelInSleep") :
              /\ \A j \in requests : j < k
              /\ rvpc = "returned" /\ rvRet.kind = "cancelled"

\* A third request succeeded after two failures and two sleeps.
C25_Witness ==
    /\ rvRet.kind = "result"
    /\ attempt = 3
    /\ Len(SelectSeq(rvLog, LAMBDA e : e.ev = "slept")) = 2

-----------------------------------------------------------------------------
\* The stash pop on exit (Spec)

-----------------------------------------------------------------------------
\* Stash and StashPop on a stash stack (SpecStash)

\* The entries of a stack whose message carries the marker, as positions.
MarkerEntries(stack) == {i \in 1..Len(stack) : stack[i].msg = stashMessage}

\* C27: StashPop restores only the marker-bearing entry (wherever it is on
\* the stack) and leaves every other entry untouched; without a
\* marker-bearing entry it changes nothing and returns no error; a second
\* StashPop after a successful one is a no-op.  (Calls whose git commands
\* all succeed.)
C27_PopOnlyMarkerEntry ==
    \A k \in 1..Len(stashLog) :
        LET c == stashLog[k] IN
          (c.op = "StashPop" /\ c.gitOk) =>
             /\ ~c.err
             /\ MarkerEntries(c.before.stack) = {}  => c.after = c.before
             /\ MarkerEntries(c.before.stack) # {} =>
                   \E i \in MarkerEntries(c.before.stack) :
                      /\ c.after.stack = DropEntry(c.before.stack, i)
                      /\ c.after.tree = Apply(c.before.tree, c.before.stack[i].saved)
             /\ (k > 1 /\ stashLog[k - 1].op = "StashPop" /\ ~stashLog[k - 1].err)
                   => c.after = c.before

\* C28: Stash returns stashed=true and creates exactly one marker-bearing
\* entry if and only if the working tree has unstaged changes or untracked
\* files; otherwise it returns stashed=false and creates no entry.  (Calls
\* that return no error.)
C28_StashedIffChanges ==
    \A k \in 1..Len(stashLog) :
        LET c == stashLog[k] IN
          (c.op = "Stash" /\ ~c.err) =>
             IF c.before.tree # NoChanges
             THEN /\ c.stashed
                  /\ Len(c.after.stack) = Len(c.before.stack) + 1
                  /\ c.after.stack[1].msg = stashMessage
                  /\ Tail(c.after.stack) = c.before.stack
             ELSE /\ ~c.stashed
                  /\ c.after.stack = c.before.stack

-----------------------------------------------------------------------------
\* FilterGates (SpecFilter)

\* C29: FilterGates is idempotent: filtering its own result with the same
\* staged files changes nothing, for every gate list and file list
\* (the empty one included).
C29_FilterGatesIdempotent ==
    fnRes.fn = "FilterGates twice" => fnRes.out = fnRes.first

\* A filter that dropped one of two gates was applied a second time.
C29_Witness ==
    /\ fnRes.fn = "FilterGates twice"
    /\ Len(fnArg.gates) = 2 /\ Len(fnRes.first) = 1
    /\ fnArg.gates[1] # fnArg.gates[2]

\* C30: with no staged files FilterGates returns all the gates (those with
\* only/except patterns too); otherwise it returns exactly the gates for
\* which ShouldRun holds, in their original order.
C30_FilterGatesKeepsShouldRun ==
    fnRes.fn = "FilterGates" =>
        IF fnArg.files = <<>> THEN fnRes.out = fnArg.gates
        ELSE fnRes.out = SelectSeq(fnArg.gates, LAMBDA g : ShouldRun(g, fnArg.files))

\* No staged files, and a gate with an only pattern was returned.
C30_Witness ==
    /\ fnRes.fn = "FilterGates"
    /\ fnArg.files = <<>>
    /\ Len(fnArg.gates) = 2
    /\ fnArg.gates[1].only # {}
    /\ fnRes.out = fnArg.gates

\* Executor.Run has left its select: a case was taken.
RunDecided == woke # "none" /\ xpc \in {"inspect", "done"}

\* The outcome belongs to the case taken, and only the output case goes on
\* to inspect the exit code.
OutcomeOfCase ==
    /\ woke = "ctx" => xpc = "done" /\ xret = RunErr("context canceled")
    /\ woke = "timer" => xpc = "done" /\ xret = RunErr("deadline exceeded")
    /\ (xpc = "inspect" \/ xret.ok \/ xret.err = "inspecting exec") => woke = "output"

\* C31 (as stated): Executor.Run's outcome is that of whichever of output
\* completion, cancellation and timeout occurred first; output completion
\* yields the captured output with the inspected exit code, and the exit
\* code is inspected only in that case.
C31_FirstEventDecides ==
    RunDecided =>
        /\ woke = firstFired
        /\ OutcomeOfCase
        /\ (woke = "output" /\ xpc = "done") => xret.ok

\* C31 (amended): the outcome is that of the first event when Run was
\* waiting as it fired, and of any event that had fired (never the timer)
\* when some had before Run began to wait; output completion yields the
\* result unless reading the stream or the inspection failed; the exit
\* code is inspected only after output completion.
C31_Amended ==
    RunDecided =>
        /\ \/ woke = firstFired
           \/ /\ woke \in {"output", "ctx"}
              /\ firstFired \in {"output", "ctx"}
              /\ streamDone /\ gctxDone
        /\ OutcomeOfCase
        /\ (woke = "output" /\ xpc = "done") =>
               \/ xret.ok
               \/ xret.err \in {"reading output", "inspecting exec"}

\* Run returned the cancellation although the output had completed first.
C31_Witness ==
    /\ xpc = "done" /\ woke = "ctx" /\ firstFired = "output"
    /\ xret = RunErr("context canceled")

-----------------------------------------------------------------------------
\* Properties of the pool's calls (SpecPoolCalls)

\* The listed containers whose last_used parses and is older than the ttl.
OlderThanTTL ==
    {i \in 1..Len(fnArg.list) :
        /\ fnArg.list[i].present /\ fnArg.list[i].parses
        /\ fnArg.now - fnArg.list[i].secs * TicksPerSecond > fnArg.ttl}

\* C32: CleanupStale(ttl) attempts the removal of exactly the listed
\* sandboxes whose parsable last_used is older than ttl, never of one whose
\* last_used is missing or unparsable, returns no error whichever removals
\* fail, and returns the number of removals that succeeded.
C32_CleanupStaleCountsRemovals ==
    fnRes.fn = "CleanupStale" =>
        /\ fnArg.listOk =>
              /\ fnRes.out.attempted = OlderThanTTL
              /\ ~fnRes.out.err
        /\ \A i \in fnRes.out.attempted :
              fnArg.list[i].present /\ fnArg.list[i].parses
        /\ fnRes.out.count = Cardinality(fnRes.out.attempted \cap fnArg.removeOk)

\* Two stale sandboxes: the first removal failed, the second was still
\* attempted and counted.
C32_Witness ==
    /\ fnRes.fn = "CleanupStale"
    /\ fnRes.out.attempted = {1, 2}
    /\ 1 \notin fnArg.removeOk
    /\ fnRes.out.count = 1
    /\ ~fnRes.out.err

\* GetOrCreate got as far as starting a newly created container.
StartReached ==
    /\ fnRes.fn = "GetOrCreate"
    /\ fnArg.findOk /\ fnArg.existing = NoId /\ fnArg.pullOk
    /\ fnArg.writable => fnArg.user.ok
    /\ fnArg.createOk

\* C33: when starting the newly created sandbox fails, GetOrCreate makes a
\* forced removal of that sandbox and returns an error and no id; the id of
\* a sandbox that failed to start is never returned.
C33_StartFailureRemovesAndFails ==
    /\ (StartReached /\ ~fnArg.startOk) =>
          LET calls == fnRes.out.calls IN
          /\ fnRes.out.err # "none"
          /\ fnRes.out.id = NoId
          /\ Len(calls) >= 2
          /\ calls[Len(calls) - 1] = RuntimeCall("ContainerStart", NewId, NoUser, FALSE)
          /\ calls[Len(calls)] = RuntimeCall("ContainerRemove", NewId, NoUser, TRUE)
    /\ (fnRes.fn = "GetOrCreate" /\ fnRes.out.id = NewId) => fnArg.startOk

C33_Witness ==
    /\ StartReached /\ ~fnArg.startOk
    /\ fnRes.out.err = "starting container"

\* GetOrCreate called ContainerCreate.
CreateCalls ==
    {i \in 1..Len(fnRes.out.calls) : fnRes.out.calls[i].op = "ContainerCreate"}

\* C34 (as stated): for a writable request, when the invoking user's
\* UID:GID cannot be resolved GetOrCreate returns an error and creates no
\* sandbox.
C34_UnresolvedUserIsError ==
    (fnRes.fn = "GetOrCreate" /\ fnArg.writable /\ ~fnArg.user.ok) =>
        /\ fnRes.out.err # "none"
        /\ CreateCalls = {}

\* C34 (amended): for a writable request that finds no running sandbox for
\* its key, an unresolvable UID:GID makes GetOrCreate return an error and
\* no id; no writable sandbox is ever created with a user other than the
\* invoking user's uid:gid; a request that finds a running sandbox returns
\* it without resolving the user.
C34_Amended ==
    fnRes.fn = "GetOrCreate" =>
        /\ (fnArg.writable /\ ~fnArg.user.ok) =>
              /\ CreateCalls = {}
              /\ (fnArg.findOk /\ fnArg.existing # NoId) =>
                    fnRes.out = PoolReturn(fnArg.existing, "none",
                                    <<RuntimeCall("ContainerList", NoId, NoUser, FALSE)>>)
              /\ ~(fnArg.findOk /\ fnArg.existing # NoId) =>
                    fnRes.out.err # "none" /\ fnRes.out.id = NoId
        /\ fnArg.writable =>
              \A i \in CreateCalls :
                  /\ fnArg.user.ok
                  /\ fnRes.out.calls[i].user = <<fnArg.user.uid, ":", fnArg.user.gid>>

\* The lookup failed after a successful pull: the call stopped there.
C34_Witness ==
    /\ fnRes.fn = "GetOrCreate"
    /\ fnArg.writable /\ ~fnArg.user.ok
    /\ fnRes.out.err = "getting current user"
    /\ CreateCalls = {}

-----------------------------------------------------------------------------
\* Properties of ShouldRun (SpecFilter)

\* File f matches glob p, by its full path or its base name.
Globbed(f, p) == Match(p, f) \/ Match(p, Base(f))

\* The staged files that match no except glob of the gate.
Surviving(cfg) ==
    {i \in 1..Len(fnArg.files) : \A p \in cfg.except : ~Globbed(fnArg.files[i], p)}

\* C35: ShouldRun(gate, files) is true iff the gate has neither only nor
\* except patterns, or, once every file matching an except glob is
\* discarded, a file remains and the gate has no only patterns or some
\* remaining file matches an only glob.
C35_ShouldRunIff ==
    fnRes.fn = "ShouldRun" =>
        LET cfg == fnArg.gates[1] IN
        fnRes.out <=>
            \/ cfg.only = {} /\ cfg.except = {}
            \/ /\ Surviving(cfg) # {}
               /\ \/ cfg.only = {}
                  \/ \E i \in Surviving(cfg), p \in cfg.only : Globbed(fnArg.files[i], p)

\* A file matches an only glob but every such file is excluded: no run.
C35_Witness ==
    /\ fnRes.fn = "ShouldRun"
    /\ fnArg.gates[1].only # {} /\ fnArg.gates[1].except # {}
    /\ \E i \in 1..Len(fnArg.files), p \in fnArg.gates[1].only :
           Globbed(fnArg.files[i], p)
    /\ ~fnRes.out

-----------------------------------------------------------------------------
\* Properties of LLMGate.Execute (SpecGate)

\* Execute met ev on its way.
Met(ev) == \E i \in 1..Len(llmTrace) : llmTrace[i] = ev

\* LLMGate.Execute has returned.
LlmReturned == gcfg.kind = "llm" /\ gpc # "begin" /\ gret # NoReturn

\* C36: LLMGate.Execute returns passed = true without calling the LLM
\* client when the staged diff set is empty or every diff is excluded by the
\* size limit; otherwise, when no step failed, passed is true iff no
\* diagnostic survived the line-number validation.
C36_LlmPassedIffNothingSurvives ==
    LlmReturned =>
        /\ (Met("empty") \/ Met("noneLeft")) =>
              /\ gret.hasResult /\ gret.result.passed /\ ~gret.result.sysErr
              /\ ~Met("review")
        /\ (~Met("empty") /\ ~Met("noneLeft") /\ gfail = "none") =>
              /\ Met("review")
              /\ gret.hasResult
              /\ gret.result.passed <=> (gret.result.errors = 0)

\* Every diff was over the size limit: passed, and no review made.
C36_Witness ==
    /\ LlmReturned /\ Met("noneLeft")
    /\ gret.result.passed /\ ~Met("review")

-----------------------------------------------------------------------------
\* System errors handed up as Execute's error (SpecEngine)

\* Gate i reported a system error: in its result, or as Execute's error.
ReportedSystemError(i) ==
    \/ tres[i].hasResult /\ tres[i].result.sysErr
    \/ ~tres[i].hasResult /\ tres[i].hasErr

\* C37: a system error on a blocking gate fails the run, also when the gate
\* reports it by returning an error from Execute: a result with system_error
\* set is recorded and RunResult.passed is false.
C37_BlockingSystemErrorFailsRun ==
    epc = "returned" =>
        \A i \in Tasks :
            (gates[i].blocking /\ ReportedSystemError(i)) =>
                /\ \E k \in 1..Len(runResult.gates) : runResult.gates[k].sysErr
                /\ ~runResult.passed

-----------------------------------------------------------------------------
\* Progress.Finish (SpecProgress)

\* The OnComplete call of every gate that reported a result has been made.
AllCompletesEmitted ==
    \A i \in Tasks : tres[i].hasResult => OnComplete(i, tres[i]) \subseteq events

\* C38: with a Progress reporter attached and a non-empty gate list, RunAll
\* calls Finish exactly once, after the on_complete event of every gate
\* that reported a result and before it returns: no Finish call is made
\* while RunAll is under way, and one has been made, with every such
\* on_complete already emitted, once it has returned.
C38_FinishExactlyOnce ==
    (progress /\ gates # <<>>) =>
        /\ epc # "returned" => FinishCalls(events) = {}
        /\ epc = "returned" =>
              /\ FinishCalls(events) = {ProgressCall("finish", 1)}
              /\ AllCompletesEmitted

\* RunAll returned after two gates reported results, Finish called once.
C38_Witness ==
    /\ progress /\ Len(gates) = 2 /\ epc = "returned"
    /\ \A i \in Tasks : tres[i].hasResult
    /\ AllCompletesEmitted
    /\ Cardinality(FinishCalls(events)) = 1

-----------------------------------------------------------------------------
\* Termination of Engine.RunAll (SpecEngineLive)

\* A goroutine holding a result finds room in resultsCh.
SendNeverBlocks ==
    (epc = "collect" /\ \E i \in Tasks : tpc[i] = "exec") =>
        Len(resultsCh) < ChanCap(gates)

\* C39: RunAll returns whenever every started gate's Execute returns: no
\* goroutine ever waits to send its result, and a RunAll under way always
\* comes to return, whenever fail-fast or the caller cancels.
C39_RunAllAlwaysReturns ==
    /\ []SendNeverBlocks
    /\ (epc = "collect") ~> (epc = "returned")

\* RunAll returned after both the caller and fail-fast had cancelled, one
\* gate never having started.
C39_Witness ==
    /\ epc = "returned"
    /\ callerCancelled /\ engineCancelled
    /\ \E i \in Tasks : NeverExecuted(i)

-----------------------------------------------------------------------------
\* The pipeline on a repository with earlier stash entries (SpecStashRun)

\* Stash has returned stashed = false (with or without an error).
NothingStashed == Len(stashLog) >= 1 /\ ~stashLog[1].stashed

\* C40: when Stash returns stashed = false the pipeline installs no signal
\* handler and never calls StashPop, however it ends, so the stash stack,
\* with any marker-bearing entry it held before the run, stays as it was.
C40_NotStashedNeverPops ==
    NothingStashed =>
        /\ ~notify /\ hpc = "none"
        /\ \A k \in 1..Len(stashLog) : stashLog[k].op # "StashPop"
        /\ repo.stack = stashLog[1].before.stack

\* Nothing to stash, an earlier marker-bearing entry on the stack, and the
\* run over, by a return or by a signal.
C40_Witness ==
    /\ NothingStashed /\ ~stashLog[1].err
    /\ MarkerEntries(repo.stack) # {}
    /\ ppc = "returned" \/ proc = "killed"
====
